---- MODULE Spec2Model ----
(***************************************************************************)
(* Quarter-hour dispatch optimizer (gridsplited).                          *)
(*                                                                         *)
(* The plant dispatch of dispatch_core.py (_apply_ramp, _dispatch_series,  *)
(* optimize_dispatch), the dispatch and battery loop of core/optimizer.py  *)
(* (run_dispatch_with_battery), the two battery strategies of              *)
(* core/battery.py (simulate_price_band, simulate_hybrid_self_supply),     *)
(* the KPIs of core/economics.py (compute_kpis), the tolling price cap of  *)
(* core/tolling.py and the price-cap resolution of app.py.                 *)
(*                                                                         *)
(* Python floats are modelled as exact rationals <<numerator, denominator>>*)
(* in lowest terms with a positive denominator, so that equality of two    *)
(* values is equality of the pairs.  Rounding error of IEEE doubles is not *)
(* modelled.  Prices, thresholds and price bands are whole numbers of      *)
(* EUR/MWh.                                                                *)
(***************************************************************************)
EXTENDS Integers, Sequences, FiniteSets, TLC

VARIABLES
    prices,          \* the price_eur_per_mwh column, in timestamp order
    plant,           \* the plant parameters handed to the dispatch functions
    done,            \* the functions that have been run on these inputs
    target,          \* dispatch_core: target array of _dispatch_series
    run_at_max,      \* dispatch_core: the condition array p >= trigger
    dispatch_mw,     \* dispatch_core: dispatch_mw returned by _dispatch_series
    results,         \* dispatch_core: rows of the results frame of optimize_dispatch
    kpis,            \* dispatch_core: the kpis dictionary of optimize_dispatch
    previous,        \* dispatch_core: what the call before the last one returned
    econ,            \* economics: what compute_kpis returned or raised
    opt_dispatch_mw, \* optimizer: df["dispatch_mw"] of run_dispatch_with_battery
    obat,            \* optimizer: the battery arguments of run_dispatch_with_battery
    soc,             \* optimizer: the soc array, soc[0] first
    opt_results,     \* optimizer: rows of the results frame
    opt_kpis,        \* optimizer: the kpis dictionary
    bat,             \* BatteryParams
    mw_plant,        \* battery: the plant dispatch column of plant_df
    band,            \* battery: rows returned by simulate_price_band
    hybrid,          \* battery: rows returned by simulate_hybrid_self_supply
    band_kpis,       \* battery: kpis returned by simulate_price_band
    hybrid_kpis,     \* battery: kpis returned by simulate_hybrid_self_supply
    params,          \* app: the sidebar parameters of one script run
    app              \* app: where the script run is, the price cap and the error

vars == <<prices, plant, done, target, run_at_max, dispatch_mw, results, kpis,
          previous, econ,
          opt_dispatch_mw, obat, soc, opt_results, opt_kpis,
          bat, mw_plant, band, hybrid, band_kpis, hybrid_kpis, params, app>>

coreVars == <<target, run_at_max, dispatch_mw, results, kpis>>
optVars == <<opt_dispatch_mw, soc, opt_results, opt_kpis>>
plantVars == <<coreVars, previous, econ, optVars>>
batVars == <<band, hybrid, band_kpis, hybrid_kpis>>
inputVars == <<prices, plant, obat, bat, mw_plant, params>>

-----------------------------------------------------------------------------
(* Bounds of the model.                                                    *)

\* longest price series handed to the plant dispatch
MaxLen == 3
\* longest price series handed to the battery simulations
MaxBatLen == 2
\* longest price series of the ramp scenarios
MaxRampLen == 4

-----------------------------------------------------------------------------
(* Exact rational arithmetic standing for Python float arithmetic.         *)

\* Python None (no rational is the empty tuple)
None == <<>>

Abs(x) == IF x < 0 THEN -x ELSE x

RECURSIVE GCD(_, _)
GCD(a, b) == IF b = 0 THEN a ELSE GCD(b, a % b)

\* n/d in lowest terms, denominator positive
Rat(n, d) ==
    LET g == GCD(Abs(n), Abs(d))
        s == IF d < 0 THEN -1 ELSE 1
    IN  <<(s * n) \div g, (s * d) \div g>>

R(n) == <<n, 1>>

RAdd(x, y) == Rat(x[1] * y[2] + y[1] * x[2], x[2] * y[2])
RSub(x, y) == Rat(x[1] * y[2] - y[1] * x[2], x[2] * y[2])
RMul(x, y) == Rat(x[1] * y[1], x[2] * y[2])
RDiv(x, y) == Rat(x[1] * y[2], x[2] * y[1])
RLe(x, y) == x[1] * y[2] <= y[1] * x[2]
RLt(x, y) == x[1] * y[2] < y[1] * x[2]
RGe(x, y) == RLe(y, x)
RGt(x, y) == RLt(y, x)
\* Python min(a, b) and max(a, b)
RMin(x, y) == IF RLt(y, x) THEN y ELSE x
RMax(x, y) == IF RGt(y, x) THEN y ELSE x
RAbs(x) == <<Abs(x[1]), x[2]>>

\* float(x or 0)
OrZero(x) == IF x = None THEN R(0) ELSE x

\* "if ramp_limit is None or ramp_limit <= 0"
no_ramp(ramp_limit) == ramp_limit = None \/ RLe(ramp_limit, R(0))

-----------------------------------------------------------------------------
(* dispatch_core.py                                                        *)

\* mutant: the ramp limit is ignored
apply_ramp_unlimited(prev_mw, target_mw, ramp_limit) == target_mw

\* mutant: only the way up is ramp-limited
apply_ramp_up_only(prev_mw, target_mw, ramp_limit) ==
    IF no_ramp(ramp_limit) THEN target_mw
    ELSE IF RGt(RSub(target_mw, prev_mw), ramp_limit) THEN RAdd(prev_mw, ramp_limit)
    ELSE target_mw

\* _apply_ramp(prev_mw, target_mw, ramp_limit)
_apply_ramp(prev_mw, target_mw, ramp_limit) ==
    IF no_ramp(ramp_limit) THEN target_mw
    ELSE LET delta == RSub(target_mw, prev_mw)
         IN  IF RGt(delta, ramp_limit) THEN RAdd(prev_mw, ramp_limit)
             ELSE IF RLt(delta, RSub(R(0), ramp_limit)) THEN RSub(prev_mw, ramp_limit)
             ELSE target_mw

\* mutant: the baseline forgets always_on
baseline_zero(min_mw, always_on) == R(0)

\* baseline = min_mw if always_on else 0.0
baseline_mw(min_mw, always_on) == IF always_on THEN min_mw ELSE R(0)

\* mutant: the trigger is the lower of break-even and threshold
trigger_min(break_even, threshold) == RMin(break_even, threshold)

\* trigger = max(float(break_even), float(threshold))
trigger_price(break_even, threshold) == RMax(break_even, threshold)

\* mutant: a price equal to the trigger counts as below it
above_trigger_strict(p, trigger) == RGt(p, trigger)

\* the condition of np.where: p >= trigger
above_trigger(p, trigger) == RGe(p, trigger)

\* mutant: the plant runs at max when the price is at or below the trigger
dispatch_target_low_price(p, min_mw, max_mw, break_even, threshold, always_on) ==
    [i \in 1..Len(p) |->
        IF RLe(p[i], trigger_price(break_even, threshold))
        THEN max_mw
        ELSE baseline_mw(min_mw, always_on)]

\* mutant: the target of an interval is decided by the price of the next interval
dispatch_target_next_price(p, min_mw, max_mw, break_even, threshold, always_on) ==
    [i \in 1..Len(p) |->
        IF above_trigger(p[IF i < Len(p) THEN i + 1 ELSE i],
                         trigger_price(break_even, threshold))
        THEN max_mw
        ELSE baseline_mw(min_mw, always_on)]

\* target = np.where(p >= trigger, max_mw, baseline)
dispatch_target(p, min_mw, max_mw, break_even, threshold, always_on) ==
    [i \in 1..Len(p) |->
        IF above_trigger(p[i], trigger_price(break_even, threshold))
        THEN max_mw
        ELSE baseline_mw(min_mw, always_on)]

\* the clamp of the ramp loop: min(., max_mw), then max(., min_mw) or max(., 0.0)
clamp_dispatch(d, min_mw, max_mw, always_on) ==
    LET capped == RMin(d, max_mw)
    IN  IF always_on THEN RMax(capped, min_mw) ELSE RMax(capped, R(0))

\* "for i in range(1, len(target))": dispatch holds the entries filled so far
RECURSIVE ramp_loop(_, _, _, _, _, _)
ramp_loop(tgt, dispatch, min_mw, max_mw, always_on, ramp_limit) ==
    IF Len(dispatch) >= Len(tgt) THEN dispatch
    ELSE LET i == Len(dispatch) + 1
             d == _apply_ramp(dispatch[i - 1], tgt[i], ramp_limit)
         IN  ramp_loop(tgt, Append(dispatch, clamp_dispatch(d, min_mw, max_mw, always_on)),
                       min_mw, max_mw, always_on, ramp_limit)

\* _dispatch_series(prices, min_mw, max_mw, break_even, threshold, always_on, ramp_limit)
_dispatch_series(p, min_mw, max_mw, break_even, threshold, always_on, ramp_limit) ==
    LET tgt == dispatch_target(p, min_mw, max_mw, break_even, threshold, always_on)
    IN  IF Len(tgt) = 0 THEN <<>>
        ELSE IF no_ramp(ramp_limit) THEN tgt
        ELSE ramp_loop(tgt, <<tgt[1]>>, min_mw, max_mw, always_on, ramp_limit)

\* mutant: the ramp of a later call starts from the last dispatch value of the
\* call before it
dispatch_again_carried(before, p, min_mw, max_mw, break_even, threshold, always_on, ramp_limit) ==
    LET tgt == dispatch_target(p, min_mw, max_mw, break_even, threshold, always_on)
        first == IF before = <<>> THEN tgt[1]
                 ELSE clamp_dispatch(_apply_ramp(before[Len(before)], tgt[1], ramp_limit),
                                     min_mw, max_mw, always_on)
    IN  IF Len(tgt) = 0 THEN <<>>
        ELSE IF no_ramp(ramp_limit) THEN tgt
        ELSE ramp_loop(tgt, <<first>>, min_mw, max_mw, always_on, ramp_limit)

\* _dispatch_series called in a process that has called it before: p, target and
\* dispatch are allocated in the call and dispatch[0] is target[0], so nothing
\* of the dispatch returned before is read
dispatch_again(before, p, min_mw, max_mw, break_even, threshold, always_on, ramp_limit) ==
    _dispatch_series(p, min_mw, max_mw, break_even, threshold, always_on, ramp_limit)

\* step_hours = 0.25
step_hours == <<1, 4>>

\* min_mw = max(0.0, min(capacity * min_load_pct, capacity))
plant_min_mw(plant_capacity_mw, min_load_pct) ==
    RMax(R(0), RMin(RMul(plant_capacity_mw, min_load_pct), plant_capacity_mw))

\* mutant: the max load is the plant capacity
plant_max_mw_capacity(plant_capacity_mw, min_mw, max_load_pct) == plant_capacity_mw

\* max_mw = max(min_mw, min(capacity * max_load_pct, capacity))
plant_max_mw(plant_capacity_mw, min_mw, max_load_pct) ==
    RMax(min_mw, RMin(RMul(plant_capacity_mw, max_load_pct), plant_capacity_mw))

\* "if mwh_per_ton and mwh_per_ton > 0"
has_production(mwh_per_ton) == mwh_per_ton # None /\ RGt(mwh_per_ton, R(0))

\* mutant: the CO2 cost is left out of the profit
true_profit_no_co2(revenue_eur, power_cost_eur, co2_cost_eur, other_pct_costs_eur) ==
    RSub(RSub(revenue_eur, power_cost_eur), other_pct_costs_eur)

\* true_profit_eur = revenue_eur - power_cost_eur - co2_cost_eur - other_pct_costs_eur
true_profit(revenue_eur, power_cost_eur, co2_cost_eur, other_pct_costs_eur) ==
    RSub(RSub(RSub(revenue_eur, power_cost_eur), co2_cost_eur), other_pct_costs_eur)

\* one row of the results frame of optimize_dispatch (step 4 to step 6)
results_row(price, mw, c) ==
    LET energy_mwh == RMul(mw, step_hours)
        power_cost_eur == RMul(energy_mwh, price)
        tons == RDiv(energy_mwh, c.mwh_per_ton)
        revenue_eur == RMul(tons, c.methanol_price_eur_per_ton)
        co2_cost_eur == RMul(RMul(tons, c.co2_t_per_ton_meoh), c.co2_price_eur_per_ton)
        maint_eur == RMul(revenue_eur, OrZero(c.maintenance_pct_of_revenue))
        sga_eur == RMul(revenue_eur, OrZero(c.sga_pct_of_revenue))
        ins_eur == RMul(revenue_eur, OrZero(c.insurance_pct_of_revenue))
        other_pct_costs_eur == RAdd(RAdd(maint_eur, sga_eur), ins_eur)
        proxy_profit_eur == RMul(RSub(price, c.break_even_eur_per_mwh), energy_mwh)
    IN  IF has_production(c.mwh_per_ton)
        THEN [price_eur_per_mwh |-> price, dispatch_mw |-> mw, energy_mwh |-> energy_mwh,
              tons |-> tons, revenue_eur |-> revenue_eur, power_cost_eur |-> power_cost_eur,
              co2_cost_eur |-> co2_cost_eur, maint_cost_eur |-> maint_eur,
              sga_cost_eur |-> sga_eur, insurance_cost_eur |-> ins_eur,
              true_profit_eur |->
                  true_profit(revenue_eur, power_cost_eur, co2_cost_eur, other_pct_costs_eur),
              profit_proxy_eur |-> proxy_profit_eur]
        ELSE [price_eur_per_mwh |-> price, dispatch_mw |-> mw, energy_mwh |-> energy_mwh,
              tons |-> R(0), revenue_eur |-> R(0), power_cost_eur |-> power_cost_eur,
              co2_cost_eur |-> R(0), maint_cost_eur |-> R(0),
              sga_cost_eur |-> R(0), insurance_cost_eur |-> R(0),
              true_profit_eur |-> R(0),
              profit_proxy_eur |-> proxy_profit_eur]

\* the sum of an array
RECURSIVE np_sum(_)
np_sum(s) == IF s = <<>> THEN R(0) ELSE RAdd(s[1], np_sum(Tail(s)))

\* float("nan")
NaN == <<0, 0>>

\* the kpis dictionary of optimize_dispatch: the aggregates
core_kpis_of(rows, c) ==
    LET total(f(_)) == np_sum([i \in 1..Len(rows) |-> f(rows[i])])
        energy(r) == r.energy_mwh
        price_energy(r) == RMul(r.price_eur_per_mwh, r.energy_mwh)
        power_cost(r) == r.power_cost_eur
        tons(r) == r.tons
        revenue(r) == r.revenue_eur
        co2_cost(r) == r.co2_cost_eur
        maint(r) == r.maint_cost_eur
        sga(r) == r.sga_cost_eur
        ins(r) == r.insurance_cost_eur
        profit(r) == r.true_profit_eur
        proxy(r) == r.profit_proxy_eur
        total_energy == total(energy)
        production == has_production(c.mwh_per_ton)
    IN  [total_energy_mwh |-> total_energy,
         weighted_avg_price_eur_per_mwh |->
             IF RGt(total_energy, R(0)) THEN RDiv(total(price_energy), total_energy)
             ELSE NaN,
         total_power_cost_eur |-> total(power_cost),
         total_tons |-> IF production THEN total(tons) ELSE None,
         total_methanol_revenue_eur |-> IF production THEN total(revenue) ELSE None,
         total_co2_cost_eur |-> IF production THEN total(co2_cost) ELSE None,
         total_opex_misc_eur |->
             IF production THEN RAdd(RAdd(total(maint), total(sga)), total(ins))
             ELSE R(0),
         total_true_profit_eur |-> IF production THEN total(profit) ELSE None,
         total_profit_proxy_eur |-> total(proxy)]

-----------------------------------------------------------------------------
(* core/economics.py                                                       *)

\* ten to the power k
RECURSIVE pow10(_)
pow10(k) == IF k = 0 THEN 1 ELSE 10 * pow10(k - 1)

\* round(x, ndigits): the nearest multiple of 10^-ndigits, ties to the even one
py_round(x, ndigits) ==
    LET scaled == RMul(x, R(pow10(ndigits)))
        q == scaled[1] \div scaled[2]
        r == scaled[1] - q * scaled[2]
        up == \/ 2 * r > scaled[2]
              \/ (2 * r = scaled[2] /\ q % 2 = 1)
    IN  Rat(IF up THEN q + 1 ELSE q, pow10(ndigits))

\* None if math.isnan(x) else round(x, ndigits)
none_if_nan(x, ndigits) == IF x = NaN THEN None ELSE py_round(x, ndigits)

\* compute_kpis on a dispatch frame with the columns price and mwh: what it
\* raises, or the dictionary it returns
compute_kpis(df, mwh_per_ton, meoh_price_eur_per_ton, co2_price_eur_per_ton, co2_t_per_ton_meoh, maint_pct, sga_pct, ins_pct) ==
    IF Len(df) = 0
    THEN [raised |-> TRUE, error |-> "ValueError: compute_kpis: dispatch_df is empty."]
    ELSE IF mwh_per_ton = None
    THEN [raised |-> TRUE, error |-> "TypeError: '<=' not supported for NoneType"]
    ELSE IF RLe(mwh_per_ton, R(0))
    THEN [raised |-> TRUE, error |-> "ValueError: compute_kpis: mwh_per_ton must be > 0."]
    ELSE
    LET total_mwh == np_sum([i \in 1..Len(df) |-> df[i].mwh])
        total_grid_mwh == total_mwh
        total_energy_cost == np_sum([i \in 1..Len(df) |-> RMul(df[i].price, df[i].mwh)])
        tons_meoh == RDiv(total_mwh, mwh_per_ton)
        revenue == RMul(tons_meoh, meoh_price_eur_per_ton)
        co2_cost == RMul(RMul(tons_meoh, co2_t_per_ton_meoh), co2_price_eur_per_ton)
        pct_cost == RMul(revenue, RDiv(RAdd(RAdd(maint_pct, sga_pct), ins_pct), R(100)))
        var_costs == RMul(tons_meoh, R(0))
        ebitda == RSub(RSub(RSub(RSub(revenue, total_energy_cost), co2_cost), pct_cost),
                       var_costs)
        ebitda_per_ton == IF RGt(tons_meoh, R(0)) THEN RDiv(ebitda, tons_meoh) ELSE NaN
        avg_energy_cost_eur_per_mwh ==
            IF RGt(total_grid_mwh, R(0)) THEN RDiv(total_energy_cost, total_grid_mwh)
            ELSE NaN
        avg_allin_cost_per_ton ==
            IF RGt(tons_meoh, R(0))
            THEN RDiv(RAdd(RAdd(RAdd(total_energy_cost, co2_cost), var_costs), pct_cost),
                      tons_meoh)
            ELSE NaN
        ebitda_margin == IF RGt(revenue, R(0)) THEN RDiv(ebitda, revenue) ELSE NaN
    IN  [raised |-> FALSE,
         total_mwh |-> py_round(total_mwh, 3),
         grid_mwh |-> py_round(total_grid_mwh, 3),
         methanol_t |-> py_round(tons_meoh, 3),
         revenue_eur |-> py_round(revenue, 2),
         energy_cost_eur |-> py_round(total_energy_cost, 2),
         avg_energy_cost_eur_per_mwh |-> none_if_nan(avg_energy_cost_eur_per_mwh, 2),
         co2_cost_eur |-> py_round(co2_cost, 2),
         variable_opex_eur |-> py_round(var_costs, 2),
         pct_based_opex_eur |-> py_round(pct_cost, 2),
         ebitda_eur |-> py_round(ebitda, 2),
         ebitda_per_t |-> none_if_nan(ebitda_per_ton, 2),
         ebitda_margin |-> none_if_nan(ebitda_margin, 4),
         all_in_cost_per_t |-> none_if_nan(avg_allin_cost_per_ton, 2)]

-----------------------------------------------------------------------------
(* core/optimizer.py: the plant dispatch of run_dispatch_with_battery      *)

\* min_mw = (min_load_pct / 100.0) * plant_capacity_mw, and the same for max_mw
opt_bound_mw(load_pct, plant_capacity_mw) ==
    RMul(RDiv(load_pct, R(100)), plant_capacity_mw)

\* target_mw(price)
opt_target_mw(price, dispatch_threshold, min_mw, max_mw, always_on) ==
    IF RLe(price, dispatch_threshold) THEN max_mw
    ELSE IF always_on THEN min_mw ELSE R(0)

\* one pass of "for mw in df['target_mw']": the ramp window, then the load clamp
opt_ramp_step(prev, mw, min_mw, max_mw, always_on, ramp_limit) ==
    LET ramped == IF ramp_limit # None /\ RGt(ramp_limit, R(0))
                  THEN RMax(RSub(prev, ramp_limit), RMin(RAdd(prev, ramp_limit), mw))
                  ELSE mw
    IN  RMax(IF always_on THEN min_mw ELSE R(0), RMin(ramped, max_mw))

\* prev = min_mw if always_on else 0.0
opt_prev0(min_mw, always_on) == IF always_on THEN min_mw ELSE R(0)

RECURSIVE opt_dispatch_loop(_, _, _, _, _, _, _)
opt_dispatch_loop(tgt, dispatch, prev, min_mw, max_mw, always_on, ramp_limit) ==
    IF Len(dispatch) >= Len(tgt) THEN dispatch
    ELSE LET mw == opt_ramp_step(prev, tgt[Len(dispatch) + 1], min_mw, max_mw,
                                 always_on, ramp_limit)
         IN  opt_dispatch_loop(tgt, Append(dispatch, mw), mw, min_mw, max_mw,
                               always_on, ramp_limit)

\* df["dispatch_mw"] of run_dispatch_with_battery
opt_dispatch_series(p, min_mw, max_mw, dispatch_threshold, always_on, ramp_limit) ==
    LET tgt == [i \in 1..Len(p) |->
                   opt_target_mw(p[i], dispatch_threshold, min_mw, max_mw, always_on)]
    IN  opt_dispatch_loop(tgt, <<>>, opt_prev0(min_mw, always_on), min_mw, max_mw,
                          always_on, ramp_limit)

\* dt_h = 0.25
dt_h == <<1, 4>>

\* np.clip(x, lo, hi)
np_clip(x, lo, hi) == RMin(RMax(x, lo), hi)

\* soc_min and soc_max: cap_mwh * pct / 100.0
opt_soc_bound(cap_mwh, pct) == RDiv(RMul(cap_mwh, pct), R(100))

\* soc_init = np.clip(cap_mwh * soc_init_pct / 100.0, soc_min, soc_max)
opt_soc_init(b) ==
    np_clip(opt_soc_bound(b.batt_energy_mwh, b.soc_init_pct),
            opt_soc_bound(b.batt_energy_mwh, b.soc_min_pct),
            opt_soc_bound(b.batt_energy_mwh, b.soc_max_pct))

\* band_low = price_cap * (1.0 - deadband_frac)
opt_band_low(price_cap, b) == RMul(price_cap, RSub(R(1), b.deadband_frac))
\* band_high = price_cap * (1.0 + deadband_frac)
opt_band_high(price_cap, b) == RMul(price_cap, RAdd(R(1), b.deadband_frac))

\* mutant: the energy limit of the discharge forgets the discharge efficiency
max_dis_by_energy_no_eff(soc_t, soc_min, eff_dis) ==
    RDiv(RMax(R(0), RSub(soc_t, soc_min)), dt_h)

\* max_dis_by_energy = max(0.0, (soc[t] - soc_min)) * eff_dis / dt_h
max_dis_by_energy(soc_t, soc_min, eff_dis) ==
    RDiv(RMul(RMax(R(0), RSub(soc_t, soc_min)), eff_dis), dt_h)

\* max_chg_by_energy = max(0.0, (soc_max - soc[t])) / (eff_chg * dt_h)
max_chg_by_energy(soc_t, soc_max, eff_chg) ==
    RDiv(RMax(R(0), RSub(soc_max, soc_t)), RMul(eff_chg, dt_h))

\* mutant: the discharge is limited by the battery only, not by the plant load
opt_battery_step_any_load(soc_t, p, load_mw, price_cap, b) ==
    LET soc_min == opt_soc_bound(b.batt_energy_mwh, b.soc_min_pct)
        soc_max == opt_soc_bound(b.batt_energy_mwh, b.soc_max_pct)
        d_mw == RMax(R(0), RMin(b.batt_power_mw,
                                max_dis_by_energy(soc_t, soc_min, b.eff_dis)))
        c_mw == RMax(R(0), RMin(b.batt_power_mw,
                                max_chg_by_energy(soc_t, soc_max, b.eff_chg)))
    IN  IF RGe(p, opt_band_high(price_cap, b)) /\ RGt(load_mw, R(0))
        THEN [charge_mw |-> R(0), discharge_mw |-> d_mw,
              soc_mwh |-> RSub(soc_t, RDiv(RMul(d_mw, dt_h), b.eff_dis))]
        ELSE IF RLe(p, opt_band_low(price_cap, b))
        THEN [charge_mw |-> c_mw, discharge_mw |-> R(0),
              soc_mwh |-> RAdd(soc_t, RMul(RMul(c_mw, dt_h), b.eff_chg))]
        ELSE [charge_mw |-> R(0), discharge_mw |-> R(0), soc_mwh |-> soc_t]

\* one pass of "for t in range(n)" of the battery policy, from soc[t]
opt_battery_step(soc_t, p, load_mw, price_cap, b) ==
    LET soc_min == opt_soc_bound(b.batt_energy_mwh, b.soc_min_pct)
        soc_max == opt_soc_bound(b.batt_energy_mwh, b.soc_max_pct)
        p_max == b.batt_power_mw
        d_mw == RMax(R(0), RMin(RMin(p_max, load_mw),
                                max_dis_by_energy(soc_t, soc_min, b.eff_dis)))
        c_mw == RMax(R(0), RMin(p_max, max_chg_by_energy(soc_t, soc_max, b.eff_chg)))
    IN  IF RGe(p, opt_band_high(price_cap, b)) /\ RGt(load_mw, R(0))
        THEN [charge_mw |-> R(0), discharge_mw |-> d_mw,
              soc_mwh |-> RSub(soc_t, RDiv(RMul(d_mw, dt_h), b.eff_dis))]
        ELSE IF RLe(p, opt_band_low(price_cap, b))
        THEN [charge_mw |-> c_mw, discharge_mw |-> R(0),
              soc_mwh |-> RAdd(soc_t, RMul(RMul(c_mw, dt_h), b.eff_chg))]
        ELSE [charge_mw |-> R(0), discharge_mw |-> R(0), soc_mwh |-> soc_t]

\* "for t in range(n)": charge_mw[t], discharge_mw[t] and soc[t+1] of every interval
RECURSIVE opt_battery_loop(_, _, _, _, _, _)
opt_battery_loop(price, base_grid_mw, rows, soc_t, price_cap, b) ==
    IF Len(rows) >= Len(price) THEN rows
    ELSE LET t == Len(rows) + 1
             row == opt_battery_step(soc_t, price[t], base_grid_mw[t], price_cap, b)
         IN  opt_battery_loop(price, base_grid_mw, Append(rows, row), row.soc_mwh,
                              price_cap, b)

\* grid_mw = np.maximum(0.0, base_grid_mw + charge_mw - discharge_mw)
opt_grid_mw(base_mw, charge_mw, discharge_mw) ==
    RMax(R(0), RSub(RAdd(base_mw, charge_mw), discharge_mw))

\* tons = energy_mwh / mwh_per_ton if mwh_per_ton and mwh_per_ton > 0 else 0
opt_tons(energy_mwh, mwh_per_ton) ==
    IF mwh_per_ton # None /\ RGt(mwh_per_ton, R(0))
    THEN RDiv(energy_mwh, mwh_per_ton) ELSE R(0)

\* the rows of the results frame of run_dispatch_with_battery
opt_results_rows(price, base_grid_mw, c, b) ==
    LET bt == opt_battery_loop(price, base_grid_mw, <<>>, opt_soc_init(b),
                               c.dispatch_threshold_eur_per_mwh, b)
    IN  [t \in 1..Len(price) |->
            LET grid_mw == opt_grid_mw(base_grid_mw[t], bt[t].charge_mw,
                                       bt[t].discharge_mw)
                energy_mwh == RMul(base_grid_mw[t], dt_h)
                tons == opt_tons(energy_mwh, c.mwh_per_ton)
            IN  [price_eur_per_mwh |-> price[t],
                 dispatch_mw |-> base_grid_mw[t],
                 energy_mwh |-> energy_mwh,
                 grid_mw |-> grid_mw,
                 grid_energy_mwh |-> RMul(grid_mw, dt_h),
                 charge_mw |-> bt[t].charge_mw,
                 discharge_mw |-> bt[t].discharge_mw,
                 soc_mwh |-> bt[t].soc_mwh,
                 power_cost_eur |-> RMul(RMul(grid_mw, dt_h), price[t]),
                 tons |-> tons,
                 revenue_eur |-> RMul(tons, c.methanol_price_eur_per_ton),
                 co2_cost_eur |-> RMul(RMul(tons, c.co2_price_eur_per_ton),
                                       c.co2_t_per_ton_meoh)]]

\* the soc array: soc[0] = soc_init, then the end-of-interval values
opt_soc_array(rows, b) == <<opt_soc_init(b)>> \o [t \in 1..Len(rows) |-> rows[t].soc_mwh]

\* max(1e-9, x); the sums of the model are 0 or far above 1e-9
max_1e9(x) ==
    IF x[1] >= 3 \/ (x[1] >= 1 /\ x[1] * 1000000000 >= x[2]) THEN x
    ELSE <<1, 1000000000>>

\* the kpis dictionary of run_dispatch_with_battery
opt_kpis_of(rows, c, b) ==
    LET col(f(_)) == [t \in 1..Len(rows) |-> f(rows[t])]
        e_grid(r) == r.grid_energy_mwh
        e_plant(r) == r.energy_mwh
        cost(r) == r.power_cost_eur
        base_cost(r) == RMul(RMul(r.dispatch_mw, dt_h), r.price_eur_per_mwh)
        tons(r) == r.tons
        rev(r) == r.revenue_eur
        co2(r) == r.co2_cost_eur
        chg(r) == r.charge_mw
        power_cost_actual == np_sum(col(cost))
        power_cost_baseline == np_sum(col(base_cost))
        revenue == np_sum(col(rev))
        co2_cost == np_sum(col(co2))
        other_pct == RAdd(RAdd(c.maintenance_pct_of_revenue, c.sga_pct_of_revenue),
                          c.insurance_pct_of_revenue)
        other_costs == RMul(revenue, other_pct)
    IN  [total_energy_mwh |-> np_sum(col(e_plant)),
         weighted_avg_grid_price_eur_per_mwh |->
             RDiv(power_cost_actual, max_1e9(np_sum(col(e_grid)))),
         total_power_cost_eur |-> power_cost_actual,
         total_power_cost_baseline_eur |-> power_cost_baseline,
         battery_savings_eur |-> RSub(power_cost_baseline, power_cost_actual),
         total_tons |-> np_sum(col(tons)),
         total_methanol_revenue_eur |-> revenue,
         total_co2_cost_eur |-> co2_cost,
         total_opex_misc_eur |-> other_costs,
         total_true_profit_eur |->
             RSub(RSub(RSub(revenue, power_cost_actual), co2_cost), other_costs),
         battery_cycles_equiv |->
             RDiv(RMul(np_sum(col(chg)), dt_h), max_1e9(b.batt_energy_mwh)),
         soc_final_mwh |-> IF rows = <<>> THEN opt_soc_init(b)
                           ELSE rows[Len(rows)].soc_mwh]

-----------------------------------------------------------------------------
(* core/battery.py                                                         *)

\* step_h = 0.25
step_h == <<1, 4>>

\* "x <= y - 1e-9": x and y are whole EUR/MWh, so it is x < y
le_minus_eps(x, y) == RLt(x, y)
\* "x >= y + 1e-9": x and y are whole EUR/MWh, so it is x > y
ge_plus_eps(x, y) == RGt(x, y)
\* "x < y - 1e-9": x and y are whole EUR/MWh, so it is x < y
lt_minus_eps(x, y) == RLt(x, y)

\* e = 0.5 * p.e_mwh
initial_energy(p) == RMul(<<1, 2>>, p.e_mwh)

\* mutant: the stored energy is not clamped at the end of the step
band_no_clamp(e, p) == e

\* e = min(max(e, p.soc_min * p.e_mwh), p.soc_max * p.e_mwh)
band_clamp(e, p) ==
    RMin(RMax(e, RMul(p.soc_min, p.e_mwh)), RMul(p.soc_max, p.e_mwh))

\* one pass of "for t in range(n)" of simulate_price_band, from stored energy e
band_step(e, price, p) ==
    LET ch == IF le_minus_eps(price, p.price_low)
              THEN RMin(p.p_ch_mw, RDiv(RSub(RMul(p.soc_max, p.e_mwh), e), step_h))
              ELSE R(0)
        dis == IF ~le_minus_eps(price, p.price_low) /\ ge_plus_eps(price, p.price_high)
               THEN RMin(p.p_dis_mw, RDiv(RSub(e, RMul(p.soc_min, p.e_mwh)), step_h))
               ELSE R(0)
        e1 == RAdd(e, RMul(RMul(ch, p.eff_ch), step_h))
        e2 == RSub(e1, RMul(RDiv(dis, p.eff_dis), step_h))
        e3 == band_clamp(e2, p)
    IN  [price_eur_per_mwh |-> price, bat_charge_mw |-> ch, bat_discharge_mw |-> dis,
         bat_soc |-> RDiv(e3, p.e_mwh), e |-> e3]

RECURSIVE band_loop(_, _, _, _)
band_loop(price, rows, e, p) ==
    IF Len(rows) >= Len(price) THEN rows
    ELSE LET row == band_step(e, price[Len(rows) + 1], p)
         IN  band_loop(price, Append(rows, row), row.e, p)

\* simulate_price_band(df, p): the rows of dfb (e is the loop's stored energy)
simulate_price_band(price, p) ==
    IF ~p.enabled THEN <<>>
    ELSE band_loop(price, <<>>, initial_energy(p), p)

\* simulate_price_band(df, p): the kpis next to the rows
band_kpis_of(rows, p) ==
    IF ~p.enabled THEN [battery_enabled |-> FALSE, battery_profit_eur |-> R(0)]
    ELSE LET energy_ch == np_sum([t \in 1..Len(rows) |->
                                     RMul(rows[t].bat_charge_mw, step_h)])
             energy_dis == np_sum([t \in 1..Len(rows) |->
                                      RMul(rows[t].bat_discharge_mw, step_h)])
             cost_energy == np_sum([t \in 1..Len(rows) |->
                                       RMul(RMul(rows[t].bat_charge_mw, step_h),
                                            rows[t].price_eur_per_mwh)])
             revenue_energy == np_sum([t \in 1..Len(rows) |->
                                          RMul(RMul(rows[t].bat_discharge_mw, step_h),
                                               rows[t].price_eur_per_mwh)])
             degr == RMul(p.degradation_eur_per_mwh, RAdd(energy_ch, energy_dis))
             profit == RSub(RSub(revenue_energy, cost_energy), degr)
         IN  [battery_enabled |-> TRUE,
              battery_trading_profit_eur |-> profit,
              battery_grid_cost_savings_eur |-> R(0),
              battery_profit_eur |-> profit,
              battery_energy_ch_mwh |-> energy_ch,
              battery_energy_dis_mwh |-> energy_dis,
              battery_degradation_eur |-> degr,
              battery_final_soc |-> IF rows = <<>> THEN R(0)
                                    ELSE rows[Len(rows)].bat_soc]

\* min_val = min of the positive plant dispatch values, 0.0 if there is none
\* (plant_df carries the timestamp and the dispatch column, and no "min_mw" column)
RECURSIVE min_positive(_, _, _)
min_positive(mw, i, best) ==
    IF i > Len(mw) THEN (IF best = None THEN R(0) ELSE best)
    ELSE IF RGt(mw[i], R(0)) /\ (best = None \/ RLt(mw[i], best))
         THEN min_positive(mw, i + 1, mw[i])
         ELSE min_positive(mw, i + 1, best)

\* threshold = p.dispatch_threshold_eur_per_mwh if it is not None else p.price_low
hybrid_threshold(p) ==
    IF p.dispatch_threshold_eur_per_mwh # None
    THEN p.dispatch_threshold_eur_per_mwh ELSE p.price_low

\* one pass of "for t in range(n)" of simulate_hybrid_self_supply
hybrid_step(e, price, plant_mw, min_mw, p) ==
    LET lo == RMul(p.soc_min, p.e_mwh)
        hi == RMul(p.soc_max, p.e_mwh)
        \* 1) self-supply
        try_ss == p.prefer_self_supply /\ lt_minus_eps(price, hybrid_threshold(p))
                  /\ RGt(plant_mw, R(0))
        target_ss == RMin(min_mw, plant_mw)
        max_dis == RMin(p.p_dis_mw, RDiv(RSub(e, lo), step_h))
        ss == RMax(R(0), RMin(target_ss, max_dis))
        do_ss == try_ss /\ RGt(ss, R(0))
        dis_to_plant == IF do_ss THEN ss ELSE R(0)
        grid_import == IF do_ss THEN RMax(R(0), RSub(plant_mw, ss)) ELSE plant_mw
        e1 == IF do_ss THEN RMax(RSub(e, RMul(RDiv(ss, p.eff_dis), step_h)), lo) ELSE e
        \* 2) discharge to grid
        max_dis_now == RMin(RSub(p.p_dis_mw, dis_to_plant), RDiv(RSub(e1, lo), step_h))
        do_arb == ge_plus_eps(price, p.price_high) /\ RGt(max_dis_now, R(0))
        dis_to_grid == IF do_arb THEN max_dis_now ELSE R(0)
        e2 == IF do_arb
              THEN RMax(RSub(e1, RMul(RDiv(dis_to_grid, p.eff_dis), step_h)), lo) ELSE e1
        \* 3) charge
        max_ch == RMin(p.p_ch_mw, RDiv(RSub(hi, e2), step_h))
        do_ch == le_minus_eps(price, p.price_low) /\ RGt(max_ch, R(0))
        ch == IF do_ch THEN max_ch ELSE R(0)
        e3 == IF do_ch THEN RMin(RAdd(e2, RMul(RMul(ch, p.eff_ch), step_h)), hi) ELSE e2
    IN  [price_eur_per_mwh |-> price, bat_charge_mw |-> ch,
         bat_discharge_mw_to_plant |-> dis_to_plant,
         bat_discharge_mw_to_grid |-> dis_to_grid,
         bat_soc |-> RDiv(e3, p.e_mwh),
         grid_import_mw_after_battery |-> grid_import,
         battery_action |-> <<do_ss, do_arb, do_ch>>,
         e |-> e3]

RECURSIVE hybrid_loop(_, _, _, _, _, _)
hybrid_loop(price, mw, min_mw, rows, e, p) ==
    IF Len(rows) >= Len(price) THEN rows
    ELSE LET t == Len(rows) + 1
             row == hybrid_step(e, price[t], mw[t], min_mw, p)
         IN  hybrid_loop(price, mw, min_mw, Append(rows, row), row.e, p)

\* simulate_hybrid_self_supply(prices_df, plant_df, p): the rows of out
simulate_hybrid_self_supply(price, mw, p) ==
    IF ~p.enabled THEN <<>>
    ELSE hybrid_loop(price, mw, min_positive(mw, 1, None), <<>>, initial_energy(p), p)

\* mutant: the degradation leaves out the energy discharged to the plant
hybrid_kpis_no_plant_wear(rows, p) ==
    IF ~p.enabled
    THEN [battery_enabled |-> FALSE, battery_profit_eur |-> R(0),
          battery_grid_cost_savings_eur |-> R(0)]
    ELSE LET sum_of(f(_)) == np_sum([t \in 1..Len(rows) |-> f(rows[t])])
             e_ch(r) == RMul(r.bat_charge_mw, step_h)
             e_grid(r) == RMul(r.bat_discharge_mw_to_grid, step_h)
             e_plant(r) == RMul(r.bat_discharge_mw_to_plant, step_h)
             c_ch(r) == RMul(e_ch(r), r.price_eur_per_mwh)
             r_grid(r) == RMul(e_grid(r), r.price_eur_per_mwh)
             s_plant(r) == RMul(e_plant(r), r.price_eur_per_mwh)
             degr == RMul(p.degradation_eur_per_mwh, RAdd(sum_of(e_ch), sum_of(e_grid)))
             trading_profit == RSub(RSub(sum_of(r_grid), sum_of(c_ch)), degr)
         IN  [battery_enabled |-> TRUE,
              battery_energy_charge_mwh |-> sum_of(e_ch),
              battery_energy_discharge_to_plant_mwh |-> sum_of(e_plant),
              battery_energy_discharge_to_grid_mwh |-> sum_of(e_grid),
              battery_degradation_eur |-> degr,
              battery_trading_profit_eur |-> trading_profit,
              battery_grid_cost_savings_eur |-> sum_of(s_plant),
              battery_profit_eur |-> RAdd(trading_profit, sum_of(s_plant)),
              battery_final_soc |-> IF rows = <<>> THEN R(0)
                                    ELSE rows[Len(rows)].bat_soc]

\* simulate_hybrid_self_supply(prices_df, plant_df, p): the kpis next to the rows
hybrid_kpis_of(rows, p) ==
    IF ~p.enabled
    THEN [battery_enabled |-> FALSE, battery_profit_eur |-> R(0),
          battery_grid_cost_savings_eur |-> R(0)]
    ELSE LET energy_ch == np_sum([t \in 1..Len(rows) |->
                                     RMul(rows[t].bat_charge_mw, step_h)])
             energy_dis_to_grid == np_sum([t \in 1..Len(rows) |->
                                   RMul(rows[t].bat_discharge_mw_to_grid, step_h)])
             energy_dis_to_plant == np_sum([t \in 1..Len(rows) |->
                                   RMul(rows[t].bat_discharge_mw_to_plant, step_h)])
             cost_charge == np_sum([t \in 1..Len(rows) |->
                                       RMul(RMul(rows[t].bat_charge_mw, step_h),
                                            rows[t].price_eur_per_mwh)])
             revenue_dis_grid == np_sum([t \in 1..Len(rows) |->
                                   RMul(RMul(rows[t].bat_discharge_mw_to_grid, step_h),
                                        rows[t].price_eur_per_mwh)])
             savings == np_sum([t \in 1..Len(rows) |->
                                   RMul(RMul(rows[t].bat_discharge_mw_to_plant, step_h),
                                        rows[t].price_eur_per_mwh)])
             degr == RMul(p.degradation_eur_per_mwh,
                          RAdd(RAdd(energy_ch, energy_dis_to_grid), energy_dis_to_plant))
             trading_profit == RSub(RSub(revenue_dis_grid, cost_charge), degr)
         IN  [battery_enabled |-> TRUE,
              battery_energy_charge_mwh |-> energy_ch,
              battery_energy_discharge_to_plant_mwh |-> energy_dis_to_plant,
              battery_energy_discharge_to_grid_mwh |-> energy_dis_to_grid,
              battery_degradation_eur |-> degr,
              battery_trading_profit_eur |-> trading_profit,
              battery_grid_cost_savings_eur |-> savings,
              battery_profit_eur |-> RAdd(trading_profit, savings),
              battery_final_soc |-> IF rows = <<>> THEN R(0)
                                    ELSE rows[Len(rows)].bat_soc]

-----------------------------------------------------------------------------
(* core/tolling.py and the price cap of app.py                             *)

\* "x or 0": None and 0 both give 0
or_zero(x) == IF x = None THEN R(0) ELSE x

\* mutant: the cap is returned without the floor at 0
price_cap_tolling_unclamped(target_margin_pct, variable_fee_eur_per_mwh, maint_pct, sga_pct, ins_pct, other_var_cost_eur_per_mwh) ==
    RSub(RMul(variable_fee_eur_per_mwh,
              RSub(RSub(R(1), RDiv(target_margin_pct, R(100))),
                   RAdd(RAdd(or_zero(maint_pct), or_zero(sga_pct)), or_zero(ins_pct)))),
         or_zero(other_var_cost_eur_per_mwh))

\* price_cap_tolling: the margin is divided by 100, the three OPEX shares are
\* taken as they come
price_cap_tolling(target_margin_pct, variable_fee_eur_per_mwh, maint_pct, sga_pct, ins_pct, other_var_cost_eur_per_mwh) ==
    LET p == RDiv(target_margin_pct, R(100))
        o == RAdd(RAdd(or_zero(maint_pct), or_zero(sga_pct)), or_zero(ins_pct))
        cap == RSub(RMul(variable_fee_eur_per_mwh, RSub(RSub(R(1), p), o)),
                    or_zero(other_var_cost_eur_per_mwh))
    IN  RMax(R(0), cap)

\* the two values of the "Margin method" radio button
PowerOnly == "Power-only (vs BE)"
FullEconomics == "Full-economics"

\* mutant: the margin is added to the break-even instead of taken off it
power_only_cap_markup(target_margin_fraction, break_even_eur_per_mwh) ==
    RMax(R(0), RMul(RAdd(R(1), target_margin_fraction), break_even_eur_per_mwh))

\* PowerOnly: threshold = max(0, (1 - target_margin_fraction) * break_even)
power_only_cap(target_margin_fraction, break_even_eur_per_mwh) ==
    RMax(R(0), RMul(RSub(R(1), target_margin_fraction), break_even_eur_per_mwh))

\* FullEconomics with mwh_per_output_unit > 0:
\* max(0, (output_price * (1 - margin - opex_fraction) - co2_price * co2_intensity)
\*        / mwh_per_output_unit)
full_economics_cap(target_margin_fraction, opex_fraction, mwh_per_ton, methanol_price, co2_price, co2_t_per_t) ==
    RMax(R(0),
         RDiv(RSub(RMul(methanol_price,
                        RSub(RSub(R(1), target_margin_fraction), opex_fraction)),
                   RMul(co2_price, co2_t_per_t)),
              mwh_per_ton))

\* economics.compute_price_cap as app.py calls it: (price_cap, method_tag, err);
\* the arguments named _pct are percent
compute_price_cap(margin_method, target_margin_pct, break_even_eur_per_mwh, maint_pct, sga_pct, ins_pct, mwh_per_ton, methanol_price, co2_price, co2_t_per_t) ==
    LET m == RDiv(target_margin_pct, R(100))
        o == RDiv(RAdd(RAdd(maint_pct, sga_pct), ins_pct), R(100))
    IN  IF margin_method = FullEconomics
        THEN IF RLe(mwh_per_ton, R(0))
             THEN [price_cap |-> R(0), method_tag |-> "full-economics",
                   err |-> <<"mwh_per_ton must be > 0">>]
             ELSE [price_cap |-> full_economics_cap(m, o, mwh_per_ton, methanol_price,
                                                    co2_price, co2_t_per_t),
                   method_tag |-> "full-economics", err |-> None]
        ELSE [price_cap |-> power_only_cap(m, break_even_eur_per_mwh),
              method_tag |-> "power-only", err |-> None]

\* economics.benchmark_power_price where it divides: (p_methanol - co2_t_per_t * p_co2
\* - water_cost - trader_margin * p_methanol) / power_mwh_per_t, floored at 0
benchmark_power_price(p_methanol, p_co2, water_cost_eur_per_t, trader_margin_pct, power_mwh_per_t, co2_t_per_t) ==
    RMax(R(0),
         RDiv(RSub(RSub(RSub(p_methanol, RMul(co2_t_per_t, p_co2)),
                        water_cost_eur_per_t),
                   RMul(RDiv(trader_margin_pct, R(100)), p_methanol)),
              power_mwh_per_t))

\* what the benchmark call of app.py can end in: with power_mwh_per_t = 0 the
\* division is undefined, the call raises or returns the floor
benchmark_outcomes(q) ==
    IF q.mwh_per_ton = R(0)
    THEN {[raised |-> TRUE, value |-> R(0)], [raised |-> FALSE, value |-> R(0)]}
    ELSE {[raised |-> FALSE,
           value |-> benchmark_power_price(q.methanol_price, q.co2_price,
                                           q.water_cost_t, q.trader_margin_pct_ui,
                                           q.mwh_per_ton, q.co2_intensity)]}

\* mutant: the script goes on after an error
never_stops(err) == FALSE

\* "if err: st.error(err); st.stop()"
stops_on_error(err) == err # None

-----------------------------------------------------------------------------
(* The inputs the functions are run on.                                    *)

SeqsUpTo(S, n) == UNION {[1..k -> S] : k \in 0..n}

\* prices around the threshold 50 and the break-even values 45 and 60
PlantPrices == {R(40), R(50), R(60)}

\* PlantConfig and EconomicsConfig: capacity > 0, 0 <= min load <= max load <= 1
PlantConfigs ==
    [plant_capacity_mw : {R(20)},
     min_load_fraction : {R(0), <<1, 10>>, <<1, 2>>},
     max_load_fraction : {<<1, 2>>, R(1)},
     break_even_eur_per_mwh : {R(45), R(60)},
     dispatch_threshold_eur_per_mwh : {R(50)},
     ramp_limit_mw_per_step : {None, R(0), R(2), R(8)},
     always_on : BOOLEAN,
     mwh_per_ton : {None, R(0), R(11)},
     methanol_price_eur_per_ton : {R(1000)},
     co2_price_eur_per_ton : {R(40)},
     co2_t_per_ton_meoh : {<<11, 8>>},
     maintenance_pct_of_revenue : {<<3, 100>>},
     sga_pct_of_revenue : {<<2, 100>>},
     insurance_pct_of_revenue : {<<1, 100>>}]

\* prices below, at and above the price band [30, 90]
BatteryPrices == {R(20), R(30), R(90), R(100)}

\* plant dispatch values seen by the hybrid strategy: off, at min load, at max load
PlantLevels == {R(0), R(2), R(20)}

\* BatteryParams with 0 <= soc_min < soc_max <= 1, e_mwh > 0, efficiencies in (0, 1]
BatteryConfigs ==
    {p \in [enabled : {TRUE},
            e_mwh : {R(2), R(10)},
            p_ch_mw : {R(5)},
            p_dis_mw : {R(5)},
            eff_ch : {R(1), <<1, 2>>},
            eff_dis : {R(1), <<1, 2>>},
            soc_min : {<<1, 10>>, <<3, 5>>},
            soc_max : {<<2, 5>>, <<9, 10>>},
            price_low : {R(30)},
            price_high : {R(90)},
            degradation_eur_per_mwh : {R(0)},
            prefer_self_supply : {TRUE},
            dispatch_threshold_eur_per_mwh : {None, R(50)}] :
        RLt(p.soc_min, p.soc_max)}

\* the battery switched off
DisabledBatteryConfigs ==
    {p \in [enabled : {FALSE},
            e_mwh : {R(10)},
            p_ch_mw : {R(5)},
            p_dis_mw : {R(5)},
            eff_ch : {R(1)},
            eff_dis : {R(1)},
            soc_min : {<<1, 10>>},
            soc_max : {<<9, 10>>},
            price_low : {R(30)},
            price_high : {R(90)},
            degradation_eur_per_mwh : {R(0)},
            prefer_self_supply : {TRUE},
            dispatch_threshold_eur_per_mwh : {None, R(50)}] : TRUE}

\* BatteryParams with soc_min >= soc_max, which nothing in the sidebar or in
\* BatteryParams rules out
InvalidBatteryConfigs ==
    {p \in [enabled : {TRUE},
            e_mwh : {R(10)},
            p_ch_mw : {R(5)},
            p_dis_mw : {R(5)},
            eff_ch : {R(1)},
            eff_dis : {R(1)},
            soc_min : {<<2, 5>>, <<3, 5>>},
            soc_max : {<<2, 5>>},
            price_low : {R(30)},
            price_high : {R(90)},
            degradation_eur_per_mwh : {R(0)},
            prefer_self_supply : {TRUE},
            dispatch_threshold_eur_per_mwh : {None, R(50)}] : TRUE}

\* the plant is idle and no battery is configured
NoPlant == CHOOSE c \in PlantConfigs : TRUE
NoBattery == CHOOSE p \in BatteryConfigs : TRUE

-----------------------------------------------------------------------------
(* Plant dispatch: optimize_dispatch and run_dispatch_with_battery run on  *)
(* the same prices and plant parameters.                                   *)

\* the battery arguments of run_dispatch_with_battery: efficiencies in (0, 1],
\* soc_min_pct <= soc_max_pct, any initial state of charge
OptBatteryConfigs ==
    [batt_energy_mwh : {R(2)},
     batt_power_mw : {R(5)},
     eff_chg : {R(1), <<1, 2>>},
     eff_dis : {R(1), <<1, 2>>},
     soc_init_pct : {R(0), R(50), R(100)},
     soc_min_pct : {R(10), R(50)},
     soc_max_pct : {R(50), R(90)},
     deadband_frac : {<<1, 20>>}]

\* the battery arguments of the runs that look at the plant only
NoOptBattery ==
    CHOOSE b \in OptBatteryConfigs :
        b.eff_chg = R(1) /\ b.eff_dis = R(1) /\ b.soc_init_pct = R(50)
        /\ b.soc_min_pct = R(10) /\ b.soc_max_pct = R(90)

\* the plant parameters of the runs that look at the battery policy
OptPlantConfigs ==
    {c \in PlantConfigs :
        /\ c.min_load_fraction \in {R(0), <<1, 10>>}
        /\ c.max_load_fraction = R(1)
        /\ c.break_even_eur_per_mwh = R(45)
        /\ c.ramp_limit_mw_per_step \in {None, R(8)}
        /\ c.mwh_per_ton = R(11)}

\* nothing has been computed yet
CoreIdle ==
    /\ target = <<>>
    /\ run_at_max = <<>>
    /\ dispatch_mw = <<>>
    /\ results = <<>>
    /\ kpis = None
    /\ previous = None
    /\ econ = None
OptIdle ==
    /\ opt_dispatch_mw = <<>>
    /\ soc = <<>>
    /\ opt_results = <<>>
    /\ opt_kpis = None
BatIdle ==
    /\ band = <<>>
    /\ hybrid = <<>>
    /\ band_kpis = None
    /\ hybrid_kpis = None
AppIdle ==
    /\ params = None
    /\ app = None

Init ==
    /\ plant \in PlantConfigs
    /\ prices \in SeqsUpTo(PlantPrices, MaxLen)
    /\ obat = NoOptBattery
    /\ done = {}
    /\ CoreIdle
    /\ OptIdle
    /\ bat = NoBattery
    /\ mw_plant = <<>>
    /\ BatIdle
    /\ AppIdle

\* dispatch_core.optimize_dispatch: limits in MW, dispatch, economics rows
OptimizeDispatch ==
    /\ "optimize_dispatch" \notin done
    /\ LET min_mw == plant_min_mw(plant.plant_capacity_mw, plant.min_load_fraction)
           max_mw == plant_max_mw(plant.plant_capacity_mw, min_mw, plant.max_load_fraction)
           mw == _dispatch_series(prices, min_mw, max_mw, plant.break_even_eur_per_mwh,
                                  plant.dispatch_threshold_eur_per_mwh, plant.always_on,
                                  plant.ramp_limit_mw_per_step)
           rows == [i \in 1..Len(prices) |-> results_row(prices[i], mw[i], plant)]
       IN  /\ target' = dispatch_target(prices, min_mw, max_mw,
                                        plant.break_even_eur_per_mwh,
                                        plant.dispatch_threshold_eur_per_mwh,
                                        plant.always_on)
           /\ run_at_max' = [i \in 1..Len(prices) |->
                                above_trigger(prices[i],
                                    trigger_price(plant.break_even_eur_per_mwh,
                                                  plant.dispatch_threshold_eur_per_mwh))]
           /\ dispatch_mw' = mw
           /\ results' = rows
           /\ kpis' = core_kpis_of(rows, plant)
    /\ done' = done \cup {"optimize_dispatch"}
    /\ UNCHANGED <<inputVars, previous, econ, optVars, batVars, app>>

\* optimizer.run_dispatch_with_battery: its min_load_pct and max_load_pct are
\* percent; plant dispatch, battery policy, results frame and kpis
RunDispatchWithBattery ==
    /\ "run_dispatch_with_battery" \notin done
    /\ LET min_mw == opt_bound_mw(RMul(R(100), plant.min_load_fraction),
                                  plant.plant_capacity_mw)
           max_mw == opt_bound_mw(RMul(R(100), plant.max_load_fraction),
                                  plant.plant_capacity_mw)
           mw == opt_dispatch_series(prices, min_mw, max_mw,
                                     plant.dispatch_threshold_eur_per_mwh,
                                     plant.always_on, plant.ramp_limit_mw_per_step)
           rows == opt_results_rows(prices, mw, plant, obat)
       IN  /\ opt_dispatch_mw' = mw
           /\ soc' = opt_soc_array(rows, obat)
           /\ opt_results' = rows
           /\ opt_kpis' = opt_kpis_of(rows, plant, obat)
    /\ done' = done \cup {"run_dispatch_with_battery"}
    /\ UNCHANGED <<inputVars, coreVars, previous, econ, batVars, app>>

\* the dispatch frame handed to compute_kpis: the price and the plant load in MWh
\* of every interval of the dispatch
dispatch_frame(rows) ==
    [i \in 1..Len(rows) |-> [price |-> rows[i].price_eur_per_mwh,
                             mwh |-> rows[i].energy_mwh]]

\* economics.compute_kpis on the dispatch of optimize_dispatch, its percentages
\* in percent
ComputeKpis ==
    /\ "optimize_dispatch" \in done
    /\ "compute_kpis" \notin done
    /\ econ' = compute_kpis(dispatch_frame(results), plant.mwh_per_ton,
                            plant.methanol_price_eur_per_ton,
                            plant.co2_price_eur_per_ton, plant.co2_t_per_ton_meoh,
                            RMul(R(100), plant.maintenance_pct_of_revenue),
                            RMul(R(100), plant.sga_pct_of_revenue),
                            RMul(R(100), plant.insurance_pct_of_revenue))
    /\ done' = done \cup {"compute_kpis"}
    /\ UNCHANGED <<inputVars, coreVars, previous, optVars, batVars, app>>

Next == OptimizeDispatch \/ RunDispatchWithBattery

Spec == Init /\ [][Next]_vars

-----------------------------------------------------------------------------
(* The two plant dispatch functions and compute_kpis side by side, for one *)
(* break-even value.                                                       *)

\* the plant parameters with break-even 45, without and with a production model
DispatchPlantConfigs ==
    {c \in PlantConfigs :
        c.break_even_eur_per_mwh = R(45) /\ c.mwh_per_ton \in {None, R(11)}}

InitDispatch ==
    /\ plant \in DispatchPlantConfigs
    /\ prices \in SeqsUpTo(PlantPrices, MaxLen)
    /\ obat = NoOptBattery
    /\ done = {}
    /\ CoreIdle
    /\ OptIdle
    /\ bat = NoBattery
    /\ mw_plant = <<>>
    /\ BatIdle
    /\ AppIdle

NextDispatch == OptimizeDispatch \/ RunDispatchWithBattery \/ ComputeKpis

SpecDispatch == InitDispatch /\ [][NextDispatch]_vars

-----------------------------------------------------------------------------
(* optimize_dispatch called a second time in the same process on the same  *)
(* prices and plant parameters.                                            *)

\* the second call of optimize_dispatch: what the first call returned is kept
\* for comparison, the second call computes everything anew
OptimizeDispatchAgain ==
    /\ "optimize_dispatch" \in done
    /\ "optimize_dispatch_again" \notin done
    /\ LET min_mw == plant_min_mw(plant.plant_capacity_mw, plant.min_load_fraction)
           max_mw == plant_max_mw(plant.plant_capacity_mw, min_mw, plant.max_load_fraction)
           mw == dispatch_again(dispatch_mw, prices, min_mw, max_mw,
                                plant.break_even_eur_per_mwh,
                                plant.dispatch_threshold_eur_per_mwh, plant.always_on,
                                plant.ramp_limit_mw_per_step)
           rows == [i \in 1..Len(prices) |-> results_row(prices[i], mw[i], plant)]
       IN  /\ previous' = [target |-> target, dispatch_mw |-> dispatch_mw,
                           results |-> results, kpis |-> kpis]
           /\ target' = dispatch_target(prices, min_mw, max_mw,
                                        plant.break_even_eur_per_mwh,
                                        plant.dispatch_threshold_eur_per_mwh,
                                        plant.always_on)
           /\ dispatch_mw' = mw
           /\ results' = rows
           /\ kpis' = core_kpis_of(rows, plant)
    /\ done' = done \cup {"optimize_dispatch_again"}
    /\ UNCHANGED <<inputVars, run_at_max, econ, optVars, batVars, app>>

InitRerun == InitDispatch

NextRerun == OptimizeDispatch \/ OptimizeDispatchAgain

SpecRerun == InitRerun /\ [][NextRerun]_vars

-----------------------------------------------------------------------------
(* The battery policy of run_dispatch_with_battery over its battery        *)
(* arguments.                                                              *)

InitOptimizer ==
    /\ plant \in OptPlantConfigs
    /\ prices \in SeqsUpTo(PlantPrices, MaxLen)
    /\ obat \in OptBatteryConfigs
    /\ done = {}
    /\ CoreIdle
    /\ OptIdle
    /\ bat = NoBattery
    /\ mw_plant = <<>>
    /\ BatIdle
    /\ AppIdle

NextOptimizer == RunDispatchWithBattery

SpecOptimizer == InitOptimizer /\ [][NextOptimizer]_vars

-----------------------------------------------------------------------------
(* Battery: the two strategies run on the same prices, plant dispatch and  *)
(* BatteryParams.                                                          *)

InitBattery ==
    /\ bat \in BatteryConfigs \cup DisabledBatteryConfigs \cup InvalidBatteryConfigs
    /\ prices \in SeqsUpTo(BatteryPrices, MaxBatLen)
    /\ mw_plant \in [1..Len(prices) -> PlantLevels]
    /\ done = {}
    /\ BatIdle
    /\ plant = NoPlant
    /\ obat = NoOptBattery
    /\ CoreIdle
    /\ OptIdle
    /\ AppIdle

SimulatePriceBand ==
    /\ "simulate_price_band" \notin done
    /\ LET dfb == simulate_price_band(prices, bat)
       IN  band' = dfb /\ band_kpis' = band_kpis_of(dfb, bat)
    /\ done' = done \cup {"simulate_price_band"}
    /\ UNCHANGED <<inputVars, hybrid, hybrid_kpis, plantVars, app>>

SimulateHybridSelfSupply ==
    /\ "simulate_hybrid_self_supply" \notin done
    /\ LET out == simulate_hybrid_self_supply(prices, mw_plant, bat)
       IN  hybrid' = out /\ hybrid_kpis' = hybrid_kpis_of(out, bat)
    /\ done' = done \cup {"simulate_hybrid_self_supply"}
    /\ UNCHANGED <<inputVars, band, band_kpis, plantVars, app>>

NextBattery == SimulatePriceBand \/ SimulateHybridSelfSupply

SpecBattery == InitBattery /\ [][NextBattery]_vars

-----------------------------------------------------------------------------
(* The two strategies on batteries with and without a degradation cost.    *)

\* BatteryParams with the default state-of-charge window and a degradation cost
\* of 0 or 4 EUR per MWh of throughput
WearBatteryConfigs ==
    [enabled : {TRUE},
     e_mwh : {R(10)},
     p_ch_mw : {R(5)},
     p_dis_mw : {R(5)},
     eff_ch : {R(1), <<1, 2>>},
     eff_dis : {R(1), <<1, 2>>},
     soc_min : {<<1, 10>>},
     soc_max : {<<9, 10>>},
     price_low : {R(30)},
     price_high : {R(90)},
     degradation_eur_per_mwh : {R(0), R(4)},
     prefer_self_supply : {TRUE},
     dispatch_threshold_eur_per_mwh : {None, R(50)}]

InitBatteryKpis ==
    /\ bat \in WearBatteryConfigs
    /\ prices \in SeqsUpTo(BatteryPrices, MaxBatLen)
    /\ mw_plant \in [1..Len(prices) -> PlantLevels]
    /\ done = {}
    /\ BatIdle
    /\ plant = NoPlant
    /\ obat = NoOptBattery
    /\ CoreIdle
    /\ OptIdle
    /\ AppIdle

NextBatteryKpis == SimulatePriceBand \/ SimulateHybridSelfSupply

SpecBatteryKpis == InitBatteryKpis /\ [][NextBatteryKpis]_vars

-----------------------------------------------------------------------------
(* One script run of app.py from the sidebar parameters to the start of    *)
(* the optimization.                                                       *)

\* the sidebar parameters app.py reads; the fee and the margin go beyond what
\* the widgets allow, as a loaded scenario can
AppParams ==
    [TOLLING_ENABLED : BOOLEAN,
     use_bench_as_break_even : BOOLEAN,
     break_even : {R(0), R(45), R(60)},
     MARGIN_METHOD : {PowerOnly, FullEconomics},
     TARGET_MARGIN_PCT : {R(0), R(30), R(95), R(150)},
     maint_pct : {R(0), <<3, 100>>, R(3)},
     sga_pct : {<<2, 100>>},
     ins_pct : {<<1, 100>>},
     mwh_per_ton : {R(-1), R(0), R(11)},
     methanol_price : {R(1000)},
     co2_price : {R(40)},
     co2_intensity : {<<11, 8>>},
     water_cost_t : {R(7)},
     trader_margin_pct_ui : {R(10)},
     toll_var_fee : {R(-10), R(0), R(100)},
     toll_other_mwh : {R(0), R(10)},
     run : BOOLEAN,
     uploaded : {None, <<"prices.csv">>}]

InitApp ==
    /\ params \in AppParams
    /\ app = [pc |-> "break_even", break_even |-> None, price_cap |-> None,
              method_tag |-> None, err |-> None, started |-> FALSE]
    /\ done = {}
    /\ prices = <<>>
    /\ plant = NoPlant
    /\ obat = NoOptBattery
    /\ bat = NoBattery
    /\ mw_plant = <<>>
    /\ CoreIdle
    /\ OptIdle
    /\ BatIdle

\* app.py lines 28-37: the break-even, replaced by the benchmark when asked for
AppBreakEven ==
    /\ app.pc = "break_even"
    /\ IF ~params.TOLLING_ENABLED /\ params.use_bench_as_break_even
       THEN \E out \in benchmark_outcomes(params) :
               app' = IF out.raised THEN [app EXCEPT !.pc = "raised"]
                      ELSE [app EXCEPT !.pc = "price_cap", !.break_even = out.value]
       ELSE app' = [app EXCEPT !.pc = "price_cap", !.break_even = params.break_even]
    /\ UNCHANGED <<inputVars, done, plantVars, batVars>>

\* app.py lines 40-50: the tolling price cap
AppPriceCapTolling ==
    /\ app.pc = "price_cap"
    /\ params.TOLLING_ENABLED
    /\ app' = [app EXCEPT
                  !.pc = "check",
                  !.price_cap = price_cap_tolling(params.TARGET_MARGIN_PCT,
                                                  params.toll_var_fee, params.maint_pct,
                                                  params.sga_pct, params.ins_pct,
                                                  params.toll_other_mwh),
                  !.method_tag = "tolling",
                  !.err = None]
    /\ UNCHANGED <<inputVars, done, plantVars, batVars>>

\* app.py lines 51-63: the price cap of the margin method
AppComputePriceCap ==
    /\ app.pc = "price_cap"
    /\ ~params.TOLLING_ENABLED
    /\ LET r == compute_price_cap(params.MARGIN_METHOD, params.TARGET_MARGIN_PCT,
                                  app.break_even, params.maint_pct, params.sga_pct,
                                  params.ins_pct, params.mwh_per_ton,
                                  params.methanol_price, params.co2_price,
                                  params.co2_intensity)
       IN  app' = [app EXCEPT !.pc = "check", !.price_cap = r.price_cap,
                              !.method_tag = r.method_tag, !.err = r.err]
    /\ UNCHANGED <<inputVars, done, plantVars, batVars>>

\* app.py lines 64-66: an error of the resolver stops the script run
AppCheckError ==
    /\ app.pc = "check"
    /\ app' = [app EXCEPT !.pc = IF stops_on_error(app.err) THEN "stopped" ELSE "run"]
    /\ UNCHANGED <<inputVars, done, plantVars, batVars>>

\* app.py lines 96-125: with the button pressed and a file uploaded the plant
\* dispatch and the battery computation start
AppRunOptimization ==
    /\ app.pc = "run"
    /\ app' = IF params.run /\ params.uploaded # None
              THEN [app EXCEPT !.pc = "optimizing", !.started = TRUE]
              ELSE [app EXCEPT !.pc = "idle"]
    /\ UNCHANGED <<inputVars, done, plantVars, batVars>>

NextApp ==
    \/ AppBreakEven
    \/ AppPriceCapTolling
    \/ AppComputePriceCap
    \/ AppCheckError
    \/ AppRunOptimization

SpecApp == InitApp /\ [][NextApp]_vars

-----------------------------------------------------------------------------
(* Properties of the plant dispatch (specification Spec).                  *)

\* pmin = min_load_fraction * capacity_mw, pmax = max_load_fraction * capacity_mw
pmin == RMul(plant.min_load_fraction, plant.plant_capacity_mw)
pmax == RMul(plant.max_load_fraction, plant.plant_capacity_mw)
\* the level of a plant that does not run at max
floor_mw == IF plant.always_on THEN pmin ELSE R(0)
threshold == plant.dispatch_threshold_eur_per_mwh
break_even == plant.break_even_eur_per_mwh
ramp == plant.ramp_limit_mw_per_step
RampConfigured == ramp # None /\ RGt(ramp, R(0))
RanCore == "optimize_dispatch" \in done
RanOptimizer == "run_dispatch_with_battery" \in done

\* C1 (as claimed): with no ramp limit, dispatch_mw[i] is pmax when
\* price[i] >= threshold and the baseline otherwise, for every break-even value.
C1_Original ==
    (RanCore /\ ~RampConfigured) =>
        \A i \in 1..Len(prices) :
            dispatch_mw[i] = IF RGe(prices[i], threshold) THEN pmax ELSE floor_mw

\* C1 (amended): with no ramp limit (None or 0), for every interval i,
\* dispatch_mw[i] is exactly pmax when price[i] >= max(break_even, threshold)
\* and otherwise exactly pmin if always_on else 0.
C1_Theorem ==
    (RanCore /\ ~RampConfigured) =>
        /\ Len(dispatch_mw) = Len(prices)
        /\ \A i \in 1..Len(prices) :
              dispatch_mw[i] = IF RGe(prices[i], RMax(break_even, threshold))
                               THEN pmax ELSE floor_mw

\* a run without ramp limit with an interval at max load, an interval at the
\* baseline, and an interval priced between the threshold and the break-even
C1_Witness ==
    /\ RanCore /\ ~RampConfigured
    /\ \E i, j, k \in 1..Len(prices) :
          /\ RGe(prices[i], RMax(break_even, threshold)) /\ dispatch_mw[i] = pmax
          /\ RLt(prices[j], threshold) /\ dispatch_mw[j] = floor_mw
          /\ RGe(prices[k], threshold) /\ RLt(prices[k], break_even)
    /\ pmax # floor_mw

\* C2: every interval of the plant schedule satisfies 0 <= dispatch_mw[i] <= pmax,
\* and dispatch_mw[i] >= pmin when always_on, in both dispatch implementations.
C2_Theorem ==
    /\ RanCore =>
          /\ Len(dispatch_mw) = Len(prices)
          /\ \A i \in 1..Len(prices) :
                /\ RLe(R(0), dispatch_mw[i]) /\ RLe(dispatch_mw[i], pmax)
                /\ plant.always_on => RGe(dispatch_mw[i], pmin)
    /\ RanOptimizer =>
          /\ Len(opt_dispatch_mw) = Len(prices)
          /\ \A i \in 1..Len(prices) :
                /\ RLe(R(0), opt_dispatch_mw[i]) /\ RLe(opt_dispatch_mw[i], pmax)
                /\ plant.always_on => RGe(opt_dispatch_mw[i], pmin)

\* an always-on plant with a positive min load and a ramp limit, held at min load
\* in one interval and above it in another, in both implementations
C2_Witness ==
    /\ RanCore /\ RanOptimizer /\ plant.always_on /\ RampConfigured
    /\ RGt(pmin, R(0))
    /\ \E i, j \in 1..Len(prices) :
          /\ dispatch_mw[i] = pmin /\ RGt(dispatch_mw[j], pmin)
    /\ \E i, j \in 1..Len(prices) :
          /\ opt_dispatch_mw[i] = pmin /\ RGt(opt_dispatch_mw[j], pmin)

\* C3: with a ramp limit r > 0, |dispatch_mw[i] - dispatch_mw[i-1]| <= r for every
\* interval after the first, in both dispatch implementations.
C3_Theorem ==
    RampConfigured =>
        /\ RanCore =>
              \A i \in 2..Len(prices) :
                  RLe(RAbs(RSub(dispatch_mw[i], dispatch_mw[i - 1])), ramp)
        /\ RanOptimizer =>
              \A i \in 2..Len(prices) :
                  RLe(RAbs(RSub(opt_dispatch_mw[i], opt_dispatch_mw[i - 1])), ramp)

\* the ramp limit binds: an interval after the first moves by exactly r and
\* stops short of its target, in both implementations
C3_Witness ==
    /\ RampConfigured /\ RanCore /\ RanOptimizer
    /\ \E i \in 2..Len(prices) :
          /\ dispatch_mw[i] # target[i]
          /\ RAbs(RSub(dispatch_mw[i], dispatch_mw[i - 1])) = ramp
    /\ \E i \in 2..Len(prices) :
          /\ RAbs(RSub(opt_dispatch_mw[i], opt_dispatch_mw[i - 1])) = ramp
          /\ RLt(opt_dispatch_mw[i], pmax) /\ RGt(opt_dispatch_mw[i], floor_mw)

\* C4 (as claimed): pmin_effective <= dispatch_mw[i] <= pmax with
\* pmin_effective = pmin if (always_on or price[i] < threshold) else 0.
C4_Original ==
    RanCore =>
        \A i \in 1..Len(prices) :
            /\ RLe(IF plant.always_on \/ RLt(prices[i], threshold) THEN pmin ELSE R(0),
                   dispatch_mw[i])
            /\ RLe(dispatch_mw[i], pmax)

\* C4 (amended): for all intervals pmin_effective <= dispatch_mw[i] <= pmax,
\* where pmin_effective = pmin if always_on else 0.
C4_Theorem ==
    RanCore =>
        \A i \in 1..Len(prices) :
            /\ RLe(IF plant.always_on THEN pmin ELSE R(0), dispatch_mw[i])
            /\ RLe(dispatch_mw[i], pmax)

\* a plant that is not always on, with a positive min load, is at 0 in an
\* interval priced below the threshold and at pmax in another interval
C4_Witness ==
    /\ RanCore /\ ~plant.always_on /\ RGt(pmin, R(0))
    /\ \E i, j \in 1..Len(prices) :
          /\ RLt(prices[i], threshold) /\ dispatch_mw[i] = R(0)
          /\ dispatch_mw[j] = pmax

\* C5 (as claimed): with a ramp limit r > 0 the first interval is ramp-limited
\* from prev0 = pmin if always_on else 0: |dispatch_mw[0] - prev0| <= r.
C5_Claim ==
    (RampConfigured /\ Len(prices) >= 1) =>
        /\ RanCore => RLe(RAbs(RSub(dispatch_mw[1], floor_mw)), ramp)
        /\ RanOptimizer => RLe(RAbs(RSub(opt_dispatch_mw[1], floor_mw)), ramp)

\* C6 (as claimed): a price equal to the threshold gets the target pmax (and the
\* dispatch pmax with no ramp limit), for every break-even value.
C6_Original ==
    RanCore =>
        \A i \in 1..Len(prices) :
            prices[i] = threshold =>
                /\ target[i] = pmax
                /\ ~RampConfigured => dispatch_mw[i] = pmax

\* C6 (amended): an interval whose price equals max(break_even, threshold)
\* exactly is treated as above it, so its target is pmax (with no ramp limit,
\* dispatch_mw[i] = pmax); a price equal to the threshold runs at max whenever
\* break_even <= threshold.
C6_Theorem ==
    RanCore =>
        \A i \in 1..Len(prices) :
            prices[i] = RMax(break_even, threshold) =>
                /\ run_at_max[i]
                /\ target[i] = pmax
                /\ ~RampConfigured => dispatch_mw[i] = pmax

\* a run without ramp limit with an interval priced exactly at the trigger,
\* dispatched at max load
C6_Witness ==
    /\ RanCore /\ ~RampConfigured /\ pmax # floor_mw
    /\ \E i \in 1..Len(prices) :
          /\ prices[i] = RMax(break_even, threshold)
          /\ dispatch_mw[i] = pmax

\* C7: the run-at-max target is chosen exactly when price >= max(break_even,
\* threshold); no interval priced below break-even gets the max-load target,
\* and with no ramp limit its dispatch is the baseline.
C7_Theorem ==
    RanCore =>
        /\ Len(target) = Len(prices) /\ Len(run_at_max) = Len(prices)
        /\ \A i \in 1..Len(prices) :
              /\ run_at_max[i] <=> RGe(prices[i], RMax(break_even, threshold))
              /\ target[i] = IF run_at_max[i] THEN pmax ELSE floor_mw
              /\ RLt(prices[i], break_even) =>
                    /\ ~run_at_max[i]
                    /\ ~RampConfigured => dispatch_mw[i] = floor_mw

\* an interval priced at or above the threshold but below break-even stays at
\* the baseline while another interval runs at max
C7_Witness ==
    /\ RanCore /\ ~RampConfigured /\ pmax # floor_mw
    /\ \E i, j \in 1..Len(prices) :
          /\ RGe(prices[i], threshold) /\ RLt(prices[i], break_even)
          /\ dispatch_mw[i] = floor_mw
          /\ run_at_max[j] /\ dispatch_mw[j] = pmax

\* the sum of the three percentage cost columns of a results row
opex_misc(row) == RAdd(RAdd(row.maint_cost_eur, row.sga_cost_eur), row.insurance_cost_eur)
\* revenue - power_cost - co2_cost - opex_misc of a results row
decomposition(row) ==
    RSub(RSub(RSub(row.revenue_eur, row.power_cost_eur), row.co2_cost_eur), opex_misc(row))
ProductionModel == plant.mwh_per_ton # None /\ RGt(plant.mwh_per_ton, R(0))

\* C8 (as claimed): true_profit == revenue - power_cost - co2_cost - opex_misc in
\* every interval, also when mwh_per_ton is unset or <= 0.
C8_Original ==
    RanCore =>
        \A i \in 1..Len(results) : results[i].true_profit_eur = decomposition(results[i])

\* C8 (amended): when mwh_per_ton > 0, true_profit == revenue - power_cost -
\* co2_cost - opex_misc exactly in every interval; when mwh_per_ton is unset or
\* <= 0, tons, revenue, CO2 cost, opex and true_profit are all 0 (true profit is
\* not computed) while power_cost is still price * energy.
C8_Theorem ==
    RanCore =>
        /\ Len(results) = Len(prices)
        /\ \A i \in 1..Len(results) :
              /\ results[i].dispatch_mw = dispatch_mw[i]
              /\ results[i].power_cost_eur =
                     RMul(RMul(dispatch_mw[i], <<1, 4>>), prices[i])
              /\ IF ProductionModel
                 THEN results[i].true_profit_eur = decomposition(results[i])
                 ELSE /\ results[i].tons = R(0)
                      /\ results[i].revenue_eur = R(0)
                      /\ results[i].co2_cost_eur = R(0)
                      /\ opex_misc(results[i]) = R(0)
                      /\ results[i].true_profit_eur = R(0)

\* a run with a production model and an interval with revenue, CO2 cost and
\* percentage costs all nonzero
C8_Witness ==
    /\ RanCore /\ ProductionModel
    /\ \E i \in 1..Len(results) :
          /\ results[i].revenue_eur # R(0)
          /\ results[i].co2_cost_eur # R(0)
          /\ opex_misc(results[i]) # R(0)
          /\ results[i].true_profit_eur # R(0)

-----------------------------------------------------------------------------
(* Properties of the KPIs and of the two dispatch functions side by side   *)
(* (specification SpecDispatch).                                           *)

RanEconomics == "compute_kpis" \in done

\* the aggregate KPIs of optimize_dispatch
AggregateKpis ==
    {"total_energy_mwh", "weighted_avg_price_eur_per_mwh", "total_power_cost_eur",
     "total_tons", "total_methanol_revenue_eur", "total_co2_cost_eur",
     "total_opex_misc_eur", "total_true_profit_eur", "total_profit_proxy_eur"}

\* C18 (as claimed): on an empty price series the dispatch series and the
\* per-interval records are empty, every aggregate KPI of optimize_dispatch is 0
\* (not None or NaN), and compute_kpis does not raise.
C18_Claim ==
    prices = <<>> =>
        /\ RanCore =>
               /\ dispatch_mw = <<>>
               /\ results = <<>>
               /\ \A k \in AggregateKpis : kpis[k] = R(0)
        /\ RanEconomics => ~econ.raised

\* C19 (as claimed): when the total dispatched energy is 0 the energy-weighted
\* average price is reported as NaN or None by optimize_dispatch, by
\* compute_kpis and by run_dispatch_with_battery, and the sums are still
\* reported.
C19_Claim ==
    /\ (RanCore /\ kpis.total_energy_mwh = R(0)) =>
           /\ kpis.weighted_avg_price_eur_per_mwh \in {NaN, None}
           /\ kpis.total_power_cost_eur = R(0)
    /\ (RanEconomics /\ ~econ.raised /\ econ.total_mwh = R(0)) =>
           /\ econ.avg_energy_cost_eur_per_mwh \in {NaN, None}
           /\ econ.energy_cost_eur = R(0)
    /\ (RanOptimizer /\ opt_kpis.total_energy_mwh = R(0)) =>
           /\ opt_kpis.weighted_avg_grid_price_eur_per_mwh \in {NaN, None}
           /\ opt_kpis.total_power_cost_eur = R(0)

\* dispatch_mw of optimize_dispatch on the price series q, with the plant
\* parameters of the run
core_dispatch_on(q) ==
    LET min_mw == plant_min_mw(plant.plant_capacity_mw, plant.min_load_fraction)
        max_mw == plant_max_mw(plant.plant_capacity_mw, min_mw, plant.max_load_fraction)
    IN  _dispatch_series(q, min_mw, max_mw, plant.break_even_eur_per_mwh,
                         plant.dispatch_threshold_eur_per_mwh, plant.always_on,
                         plant.ramp_limit_mw_per_step)

\* dispatch_mw of run_dispatch_with_battery on the price series q, with the
\* plant parameters of the run
opt_dispatch_on(q) ==
    opt_dispatch_series(q,
                        opt_bound_mw(RMul(R(100), plant.min_load_fraction),
                                     plant.plant_capacity_mw),
                        opt_bound_mw(RMul(R(100), plant.max_load_fraction),
                                     plant.plant_capacity_mw),
                        plant.dispatch_threshold_eur_per_mwh, plant.always_on,
                        plant.ramp_limit_mw_per_step)

\* the price series that share the first k intervals with the run's prices and
\* then stop or go on with any one price
SharingFirst(k) ==
    {SubSeq(prices, 1, k)} \cup {Append(SubSeq(prices, 1, k), x) : x \in PlantPrices}

\* C20: no lookahead in the plant dispatch: every price series that agrees with
\* the run's prices on the first k intervals, whatever comes after them, gets
\* the same dispatch values on those k intervals, in optimize_dispatch and in
\* run_dispatch_with_battery.
C20_Theorem ==
    \A k \in 0..Len(prices) :
        \A q \in SharingFirst(k) :
            /\ RanCore => SubSeq(core_dispatch_on(q), 1, k) = SubSeq(dispatch_mw, 1, k)
            /\ RanOptimizer =>
                   SubSeq(opt_dispatch_on(q), 1, k) = SubSeq(opt_dispatch_mw, 1, k)

\* C20 witness: both dispatch functions have run on at least two intervals, and
\* a series that shares the first interval but has another second price gets
\* another dispatch value in the second interval.
C20_Witness ==
    /\ RanCore /\ RanOptimizer
    /\ Len(prices) >= 2
    /\ \E q \in SharingFirst(1) :
          /\ Len(q) = 2 /\ q[2] # prices[2]
          /\ core_dispatch_on(q)[2] # dispatch_mw[2]
          /\ opt_dispatch_on(q)[2] # opt_dispatch_mw[2]

-----------------------------------------------------------------------------
(* The values of the sidebar handed as they are to the consumers of the    *)
(* core: optimize_dispatch, run_dispatch_with_battery, price_cap_tolling   *)
(* and compute_kpis.                                                       *)

\* what the widgets of the sidebar show: loads, OPEX shares and margin in
\* percent; the tolling fees are the ones app.py reads
SidebarWidgets ==
    [plant_cap_mw : {R(20)},
     min_load : {R(0), R(10), R(50)},
     max_load : {R(100)},
     always_on : BOOLEAN,
     maint : {R(0), R(3)},
     sga : {R(2)},
     ins : {R(1)},
     target_margin : {R(30)},
     toll_var_fee : {R(100)},
     toll_other_mwh : {R(10)}]

\* sidebar(): the two load sliders are divided by 100, the other inputs are
\* returned as entered
sidebar(w) ==
    [PLANT_CAP_MW |-> w.plant_cap_mw,
     MIN_LOAD_PCT |-> RDiv(w.min_load, R(100)),
     MAX_LOAD_PCT |-> RDiv(w.max_load, R(100)),
     ALWAYS_ON |-> w.always_on,
     MAINT_PCT |-> w.maint,
     SGA_PCT |-> w.sga,
     INS_PCT |-> w.ins,
     TARGET_MARGIN_PCT |-> w.target_margin,
     toll_var_fee |-> w.toll_var_fee,
     toll_other_mwh |-> w.toll_other_mwh]

\* the keyword arguments of the dispatch functions, each taken from the sidebar
\* value of its name; threshold 50, break-even 45, no ramp limit
sidebar_arguments(q) ==
    [plant_capacity_mw |-> q.PLANT_CAP_MW,
     min_load_fraction |-> q.MIN_LOAD_PCT,
     max_load_fraction |-> q.MAX_LOAD_PCT,
     break_even_eur_per_mwh |-> R(45),
     dispatch_threshold_eur_per_mwh |-> R(50),
     ramp_limit_mw_per_step |-> None,
     always_on |-> q.ALWAYS_ON,
     mwh_per_ton |-> R(11),
     methanol_price_eur_per_ton |-> R(1000),
     co2_price_eur_per_ton |-> R(40),
     co2_t_per_ton_meoh |-> <<11, 8>>,
     maintenance_pct_of_revenue |-> q.MAINT_PCT,
     sga_pct_of_revenue |-> q.SGA_PCT,
     insurance_pct_of_revenue |-> q.INS_PCT]

InitSidebar ==
    /\ params \in {sidebar(w) : w \in SidebarWidgets}
    /\ plant = sidebar_arguments(params)
    /\ prices \in SeqsUpTo(PlantPrices, MaxLen)
    /\ obat = NoOptBattery
    /\ done = {}
    /\ CoreIdle
    /\ OptIdle
    /\ bat = NoBattery
    /\ mw_plant = <<>>
    /\ BatIdle
    /\ app = None

\* run_dispatch_with_battery with min_load_pct and max_load_pct as the sidebar
\* returns them
SidebarRunDispatchWithBattery ==
    /\ "run_dispatch_with_battery" \notin done
    /\ LET min_mw == opt_bound_mw(plant.min_load_fraction, plant.plant_capacity_mw)
           max_mw == opt_bound_mw(plant.max_load_fraction, plant.plant_capacity_mw)
           mw == opt_dispatch_series(prices, min_mw, max_mw,
                                     plant.dispatch_threshold_eur_per_mwh,
                                     plant.always_on, plant.ramp_limit_mw_per_step)
           rows == opt_results_rows(prices, mw, plant, obat)
       IN  /\ opt_dispatch_mw' = mw
           /\ soc' = opt_soc_array(rows, obat)
           /\ opt_results' = rows
           /\ opt_kpis' = opt_kpis_of(rows, plant, obat)
    /\ done' = done \cup {"run_dispatch_with_battery"}
    /\ UNCHANGED <<inputVars, coreVars, previous, econ, batVars, app>>

\* compute_kpis on the dispatch of optimize_dispatch with maint_pct, sga_pct and
\* ins_pct as the sidebar returns them
SidebarComputeKpis ==
    /\ "optimize_dispatch" \in done
    /\ "compute_kpis" \notin done
    /\ econ' = compute_kpis(dispatch_frame(results), plant.mwh_per_ton,
                            plant.methanol_price_eur_per_ton,
                            plant.co2_price_eur_per_ton, plant.co2_t_per_ton_meoh,
                            params.MAINT_PCT, params.SGA_PCT, params.INS_PCT)
    /\ done' = done \cup {"compute_kpis"}
    /\ UNCHANGED <<inputVars, coreVars, previous, optVars, batVars, app>>

\* price_cap_tolling with the margin and the OPEX shares as the sidebar returns
\* them
SidebarPriceCapTolling ==
    /\ "price_cap_tolling" \notin done
    /\ app' = [price_cap |-> price_cap_tolling(params.TARGET_MARGIN_PCT,
                                               params.toll_var_fee, params.MAINT_PCT,
                                               params.SGA_PCT, params.INS_PCT,
                                               params.toll_other_mwh)]
    /\ done' = done \cup {"price_cap_tolling"}
    /\ UNCHANGED <<inputVars, plantVars, batVars>>

NextSidebar ==
    \/ OptimizeDispatch
    \/ SidebarRunDispatchWithBattery
    \/ SidebarComputeKpis
    \/ SidebarPriceCapTolling

SpecSidebar == InitSidebar /\ [][NextSidebar]_vars

-----------------------------------------------------------------------------
(* Ramp scenarios: optimize_dispatch with a ramp limit on price series of  *)
(* up to MaxRampLen intervals.                                             *)

\* a 20 MW plant with a ramp limit of 2 or 8 MW per step and break-even below
\* the threshold
RampPlantConfigs ==
    {c \in PlantConfigs :
        /\ c.min_load_fraction \in {R(0), <<1, 2>>}
        /\ c.max_load_fraction = R(1)
        /\ c.break_even_eur_per_mwh = R(45)
        /\ c.ramp_limit_mw_per_step \in {R(2), R(8)}
        /\ c.mwh_per_ton = None}

InitRamp ==
    /\ plant \in RampPlantConfigs
    /\ prices \in SeqsUpTo(PlantPrices, MaxRampLen)
    /\ obat = NoOptBattery
    /\ done = {}
    /\ CoreIdle
    /\ OptIdle
    /\ bat = NoBattery
    /\ mw_plant = <<>>
    /\ BatIdle
    /\ AppIdle

NextRamp == OptimizeDispatch

SpecRamp == InitRamp /\ [][NextRamp]_vars

\* the target is the same from interval i to interval j
ConstantTarget(i, j) == \A k \in i..j : target[k] = target[i]

\* C22: with a ramp limit r > 0, in every interval after the first the
\* dispatch moves toward the target by exactly min(r, |target - previous
\* dispatch|) and never past it; while the target stays constant the distance
\* to it shrinks by r per interval until it is 0, and the dispatch then stays
\* on the target; capacity 20, r = 2, always_on false, threshold 50 and prices
\* [40, 60, 60, 60] give [0, 2, 4, 6].
C22_Theorem ==
    (RanCore /\ RampConfigured) =>
        /\ \A i \in 2..Len(prices) :
              /\ RAbs(RSub(dispatch_mw[i], dispatch_mw[i - 1])) =
                     RMin(ramp, RAbs(RSub(target[i], dispatch_mw[i - 1])))
              /\ RLe(dispatch_mw[i - 1], target[i]) =>
                     RLe(dispatch_mw[i - 1], dispatch_mw[i]) /\ RLe(dispatch_mw[i], target[i])
              /\ RGe(dispatch_mw[i - 1], target[i]) =>
                     RGe(dispatch_mw[i - 1], dispatch_mw[i]) /\ RGe(dispatch_mw[i], target[i])
              /\ dispatch_mw[i - 1] = target[i] => dispatch_mw[i] = target[i]
        /\ \A i \in 1..Len(prices) : \A j \in i..Len(prices) :
              ConstantTarget(i + 1, j) =>
                  RAbs(RSub(target[j], dispatch_mw[j])) =
                      RMax(R(0), RSub(RAbs(RSub(target[j], dispatch_mw[i])),
                                      RMul(R(j - i), ramp)))
        /\ (/\ prices = <<R(40), R(60), R(60), R(60)>>
            /\ ramp = R(2) /\ ~plant.always_on /\ pmin = R(0) /\ pmax = R(20)) =>
               dispatch_mw = <<R(0), R(2), R(4), R(6)>>

\* C22 witness: the scenario [40, 60, 60, 60] with r = 2 has run, and so has a
\* run that reaches its target after two limited steps and stays on it.
C22_Witness ==
    /\ RanCore /\ RampConfigured
    /\ \/ /\ prices = <<R(40), R(60), R(60), R(60)>>
          /\ ramp = R(2) /\ ~plant.always_on /\ pmin = R(0)
          /\ dispatch_mw = <<R(0), R(2), R(4), R(6)>>
       \/ /\ Len(prices) = 4
          /\ ConstantTarget(2, 4)
          /\ dispatch_mw[1] # target[2]
          /\ dispatch_mw[2] # target[2]
          /\ dispatch_mw[3] = target[3]
          /\ dispatch_mw[4] = target[4]

\* C30 (as claimed): for identical prices, plant limits, always_on, ramp limit
\* and threshold, with break_even <= threshold, the dispatch_mw schedule of
\* run_dispatch_with_battery equals the one of _dispatch_series in every
\* interval.
C30_Claim ==
    (RanCore /\ RanOptimizer /\ RLe(break_even, threshold)) =>
        /\ Len(opt_dispatch_mw) = Len(dispatch_mw)
        /\ \A i \in 1..Len(dispatch_mw) : opt_dispatch_mw[i] = dispatch_mw[i]

-----------------------------------------------------------------------------
(* Properties of the sidebar values in the core (specification             *)
(* SpecSidebar).                                                           *)

\* the parameters as 0-1 fractions: the loads as the sidebar returns them, the
\* OPEX shares and the margin divided by 100 once
load_min_fraction == params.MIN_LOAD_PCT
load_max_fraction == params.MAX_LOAD_PCT
opex_fraction ==
    RDiv(RAdd(RAdd(params.MAINT_PCT, params.SGA_PCT), params.INS_PCT), R(100))
target_margin_as_fraction == RDiv(params.TARGET_MARGIN_PCT, R(100))
\* the load levels these fractions give
load_levels ==
    {RMul(load_max_fraction, params.PLANT_CAP_MW),
     IF params.ALWAYS_ON THEN RMul(load_min_fraction, params.PLANT_CAP_MW) ELSE R(0)}
RanTolling == "price_cap_tolling" \in done

\* C25 (as claimed): with the values of the sidebar (loads divided by 100,
\* margin and OPEX shares in percent) every consumer uses each parameter as a
\* 0-1 fraction, converted exactly once: optimize_dispatch and
\* run_dispatch_with_battery dispatch at fraction * capacity and charge
\* revenue * (maint + sga + ins) / 100, price_cap_tolling takes margin / 100
\* and (maint + sga + ins) / 100 off the fee, compute_kpis charges revenue *
\* (maint + sga + ins) / 100.
C25_Claim ==
    /\ RanCore =>
          /\ \A i \in 1..Len(results) : results[i].dispatch_mw \in load_levels
          /\ kpis.total_opex_misc_eur =
                 RMul(kpis.total_methanol_revenue_eur, opex_fraction)
    /\ RanOptimizer =>
          /\ \A i \in 1..Len(opt_results) : opt_results[i].dispatch_mw \in load_levels
          /\ opt_kpis.total_opex_misc_eur =
                 RMul(opt_kpis.total_methanol_revenue_eur, opex_fraction)
    /\ RanTolling =>
          app.price_cap =
              RMax(R(0),
                   RSub(RMul(params.toll_var_fee,
                             RSub(RSub(R(1), target_margin_as_fraction), opex_fraction)),
                        params.toll_other_mwh))
    /\ (RanEconomics /\ ~econ.raised) =>
          econ.pct_based_opex_eur =
              py_round(RMul(RMul(RDiv(kpis.total_energy_mwh, plant.mwh_per_ton),
                                 plant.methanol_price_eur_per_ton),
                            opex_fraction), 2)

-----------------------------------------------------------------------------
(* Properties of a repeated call (specification SpecRerun).                *)

RanAgain == "optimize_dispatch_again" \in done

-----------------------------------------------------------------------------
(* Properties of the battery strategies (specification SpecBattery).       *)

RanBand == "simulate_price_band" \in done
RanHybrid == "simulate_hybrid_self_supply" \in done
soc_min_mwh == RMul(bat.soc_min, bat.e_mwh)
soc_max_mwh == RMul(bat.soc_max, bat.e_mwh)
\* an enabled battery with e_mwh > 0 and 0 <= soc_min < soc_max <= 1
ValidBattery ==
    /\ bat.enabled
    /\ RGt(bat.e_mwh, R(0))
    /\ RLe(R(0), bat.soc_min) /\ RLt(bat.soc_min, bat.soc_max) /\ RLe(bat.soc_max, R(1))

\* C9: in simulate_price_band, for an enabled battery with soc_min < soc_max,
\* the state of charge recorded after every interval lies within
\* [soc_min, soc_max], and the stored energy within
\* [soc_min * e_mwh, soc_max * e_mwh].
C9_Theorem ==
    (RanBand /\ ValidBattery) =>
        /\ Len(band) = Len(prices)
        /\ \A t \in 1..Len(band) :
              /\ RLe(bat.soc_min, band[t].bat_soc) /\ RLe(band[t].bat_soc, bat.soc_max)
              /\ RLe(soc_min_mwh, band[t].e) /\ RLe(band[t].e, soc_max_mwh)
              /\ band[t].bat_soc = RDiv(band[t].e, bat.e_mwh)

\* a lossy discharge (eff_dis < 1) that ends exactly on soc_min after a charge
\* that ended exactly on soc_max
C9_Witness ==
    /\ RanBand /\ RLt(bat.eff_dis, R(1))
    /\ RLe(bat.soc_min, <<1, 2>>) /\ RLe(<<1, 2>>, bat.soc_max)
    /\ \E t, u \in 1..Len(band) :
          /\ RGt(band[t].bat_charge_mw, R(0)) /\ band[t].bat_soc = bat.soc_max
          /\ RGt(band[u].bat_discharge_mw, R(0)) /\ band[u].bat_soc = bat.soc_min

\* C10 (as claimed): in simulate_hybrid_self_supply, for an enabled battery with
\* soc_min < soc_max, the state of charge recorded after every interval lies
\* within [soc_min, soc_max], also in intervals in which the battery takes no
\* action.
C10_Claim ==
    (RanHybrid /\ ValidBattery) =>
        \A t \in 1..Len(hybrid) :
            /\ RLe(bat.soc_min, hybrid[t].bat_soc)
            /\ RLe(hybrid[t].bat_soc, bat.soc_max)

\* the stored energy at the start of interval t of simulate_price_band
band_e_before(t) == IF t = 1 THEN RMul(<<1, 2>>, bat.e_mwh) ELSE band[t - 1].e

\* C12 (as claimed): in every interval of simulate_price_band the battery
\* charges when price <= price_low and there is headroom below soc_max, and
\* discharges when price >= price_high and there is energy above soc_min,
\* also when the price equals price_low or price_high.
C12_Claim ==
    (RanBand /\ ValidBattery) =>
        \A t \in 1..Len(band) :
            /\ (RLe(prices[t], bat.price_low) /\ RLt(band_e_before(t), soc_max_mwh))
                   => RGt(band[t].bat_charge_mw, R(0))
            /\ (RGe(prices[t], bat.price_high) /\ RGt(band_e_before(t), soc_min_mwh))
                   => RGt(band[t].bat_discharge_mw, R(0))

\* C13 (as claimed): in simulate_price_band, starting from a state of charge
\* inside the bounds, in every interval the stored energy changes by exactly
\* charge_mw * eff_ch * dt - (discharge_mw / eff_dis) * dt, so the end-of-step
\* clamp never alters the value, for any efficiencies in (0, 1].
C13_Claim ==
    (/\ RanBand /\ ValidBattery
     /\ RLe(bat.soc_min, <<1, 2>>) /\ RLe(<<1, 2>>, bat.soc_max)) =>
        \A t \in 1..Len(band) :
            band[t].e =
                RSub(RAdd(band_e_before(t),
                          RMul(RMul(band[t].bat_charge_mw, bat.eff_ch), <<1, 4>>)),
                     RMul(RDiv(band[t].bat_discharge_mw, bat.eff_dis), <<1, 4>>))

\* the battery configuration is one the strategies are to treat as disabled
BatteryOff ==
    \/ ~bat.enabled
    \/ RLe(bat.e_mwh, R(0))
    \/ RGe(bat.soc_min, bat.soc_max)

\* C14 (as claimed): with energy_capacity_mwh <= 0 or an invalid configuration
\* (soc_min >= soc_max) both battery simulations behave as for enabled = False:
\* they return an empty schedule and kpis with battery_enabled false and
\* battery profit 0.
C14_Claim ==
    /\ (RanBand /\ BatteryOff) =>
           /\ band = <<>>
           /\ ~band_kpis.battery_enabled
           /\ band_kpis.battery_profit_eur = R(0)
    /\ (RanHybrid /\ BatteryOff) =>
           /\ hybrid = <<>>
           /\ ~hybrid_kpis.battery_enabled
           /\ hybrid_kpis.battery_profit_eur = R(0)

\* the minimum load of the plant whose dispatch is handed to the battery: the
\* lowest level at which it runs
PlantMinLoad ==
    CHOOSE x \in PlantLevels :
        RGt(x, R(0)) /\ \A y \in PlantLevels : RGt(y, R(0)) => RLe(x, y)

\* C24 (as claimed): in every interval of simulate_hybrid_self_supply,
\* discharge-to-plant + discharge-to-grid <= p_dis_mw, discharge-to-plant <=
\* min(plant minimum load, plant dispatch), and grid_import_mw_after_battery =
\* plant dispatch - discharge-to-plant >= 0.
C24_Claim ==
    RanHybrid =>
        \A t \in 1..Len(hybrid) :
            /\ RLe(RAdd(hybrid[t].bat_discharge_mw_to_plant,
                        hybrid[t].bat_discharge_mw_to_grid), bat.p_dis_mw)
            /\ RLe(hybrid[t].bat_discharge_mw_to_plant, RMin(PlantMinLoad, mw_plant[t]))
            /\ hybrid[t].grid_import_mw_after_battery =
                   RSub(mw_plant[t], hybrid[t].bat_discharge_mw_to_plant)
            /\ RGe(hybrid[t].grid_import_mw_after_battery, R(0))

\* C27 (as claimed): in simulate_price_band, for every price series and every
\* config with 0 <= soc_min < soc_max <= 1, every interval has
\* 0 <= bat_charge_mw <= p_ch_mw and 0 <= bat_discharge_mw <= p_dis_mw.
C27_Claim ==
    (RanBand /\ ValidBattery) =>
        \A t \in 1..Len(band) :
            /\ RLe(R(0), band[t].bat_charge_mw)
            /\ RLe(band[t].bat_charge_mw, bat.p_ch_mw)
            /\ RLe(R(0), band[t].bat_discharge_mw)
            /\ RLe(band[t].bat_discharge_mw, bat.p_dis_mw)

\* the inputs that share the first k intervals (price and plant dispatch) with
\* the run's inputs and then stop or go on with any one interval
BatterySharingFirst(k) ==
    {[price |-> SubSeq(prices, 1, k), mw |-> SubSeq(mw_plant, 1, k)]}
    \cup {[price |-> Append(SubSeq(prices, 1, k), x),
           mw |-> Append(SubSeq(mw_plant, 1, k), y)] :
              x \in BatteryPrices, y \in PlantLevels}

\* C26 (as claimed): in simulate_hybrid_self_supply the record of an interval
\* (charge, discharge to plant, discharge to grid, state of charge) depends only
\* on the config and on the prices and plant dispatch up to that interval:
\* inputs that agree on the first k intervals give the same first k records,
\* whatever comes after them.
C26_Claim ==
    RanHybrid =>
        \A k \in 0..Len(prices) :
            \A q \in BatterySharingFirst(k) :
                SubSeq(simulate_hybrid_self_supply(q.price, q.mw, bat), 1, k) =
                    SubSeq(hybrid, 1, k)

\* C28 (as claimed): in simulate_hybrid_self_supply the battery never charges
\* and discharges in the same interval: bat_charge_mw > 0 implies that the
\* discharge to the plant and the discharge to the grid are 0, also when
\* dispatch_threshold_eur_per_mwh is unset and price_low < price_high.
C28_Claim ==
    (RanHybrid /\ ValidBattery /\ RLt(bat.price_low, bat.price_high)) =>
        \A t \in 1..Len(hybrid) :
            RGt(hybrid[t].bat_charge_mw, R(0)) =>
                /\ hybrid[t].bat_discharge_mw_to_plant = R(0)
                /\ hybrid[t].bat_discharge_mw_to_grid = R(0)

-----------------------------------------------------------------------------
(* Properties of the battery KPIs (specification SpecBatteryKpis).         *)

\* the sum over the intervals of price * power * 0.25 h, and of power * 0.25 h
RECURSIVE PricedEnergy(_, _, _)
PricedEnergy(q, power, t) ==
    IF t = 0 THEN R(0)
    ELSE RAdd(PricedEnergy(q, power, t - 1), RMul(q[t], RMul(power[t], <<1, 4>>)))
RECURSIVE Energy(_, _)
Energy(power, t) ==
    IF t = 0 THEN R(0) ELSE RAdd(Energy(power, t - 1), RMul(power[t], <<1, 4>>))

band_charge == [t \in 1..Len(band) |-> band[t].bat_charge_mw]
band_discharge == [t \in 1..Len(band) |-> band[t].bat_discharge_mw]
hybrid_charge == [t \in 1..Len(hybrid) |-> hybrid[t].bat_charge_mw]
hybrid_to_plant == [t \in 1..Len(hybrid) |-> hybrid[t].bat_discharge_mw_to_plant]
hybrid_to_grid == [t \in 1..Len(hybrid) |-> hybrid[t].bat_discharge_mw_to_grid]

\* C23: for both battery strategies battery_profit_eur equals the sum of
\* price * discharged energy (sales to the grid and self-supply of the plant)
\* minus the sum of price * charged energy minus the degradation, and the
\* degradation is degradation_eur_per_mwh * (charged energy + discharged
\* energy, self-supply included).
C23_Theorem ==
    /\ RanBand =>
          LET n == Len(prices)
              wear == RMul(bat.degradation_eur_per_mwh,
                           RAdd(Energy(band_charge, n), Energy(band_discharge, n)))
          IN  /\ Len(band) = n
              /\ band_kpis.battery_degradation_eur = wear
              /\ band_kpis.battery_profit_eur =
                     RSub(RSub(PricedEnergy(prices, band_discharge, n),
                               PricedEnergy(prices, band_charge, n)),
                          wear)
    /\ RanHybrid =>
          LET n == Len(prices)
              wear == RMul(bat.degradation_eur_per_mwh,
                           RAdd(Energy(hybrid_charge, n),
                                RAdd(Energy(hybrid_to_grid, n),
                                     Energy(hybrid_to_plant, n))))
          IN  /\ Len(hybrid) = n
              /\ hybrid_kpis.battery_degradation_eur = wear
              /\ hybrid_kpis.battery_profit_eur =
                     RSub(RSub(RAdd(PricedEnergy(prices, hybrid_to_grid, n),
                                    PricedEnergy(prices, hybrid_to_plant, n)),
                               PricedEnergy(prices, hybrid_charge, n)),
                          wear)

\* C23 witness: both strategies have run on a battery with a degradation cost;
\* the band strategy charged and discharged, the hybrid strategy charged,
\* supplied the plant and sold to the grid.
C23_Witness ==
    /\ RanBand /\ RanHybrid
    /\ RGt(bat.degradation_eur_per_mwh, R(0))
    /\ \E t, u \in 1..Len(band) :
          RGt(band[t].bat_charge_mw, R(0)) /\ RGt(band[u].bat_discharge_mw, R(0))
    /\ \E t, u, v \in 1..Len(hybrid) :
          /\ RGt(hybrid[t].bat_charge_mw, R(0))
          /\ RGt(hybrid[u].bat_discharge_mw_to_plant, R(0))
          /\ RGt(hybrid[v].bat_discharge_mw_to_grid, R(0))
    /\ hybrid_kpis.battery_profit_eur # R(0)

-----------------------------------------------------------------------------
(* Properties of the battery policy of run_dispatch_with_battery           *)
(* (specification SpecOptimizer).                                          *)

\* soc_min and soc_max of the run, in MWh
opt_soc_min_mwh == RDiv(RMul(obat.batt_energy_mwh, obat.soc_min_pct), R(100))
opt_soc_max_mwh == RDiv(RMul(obat.batt_energy_mwh, obat.soc_max_pct), R(100))

\* C11: in run_dispatch_with_battery, soc[0] is soc_init_pct of the capacity
\* clamped into [soc_min, soc_max], and every later soc[t] stays within
\* [soc_min, soc_max], for efficiencies in (0, 1] and soc_min <= soc_max.
C11_Theorem ==
    RanOptimizer =>
        /\ Len(soc) = Len(prices) + 1
        /\ soc[1] = RMin(RMax(RDiv(RMul(obat.batt_energy_mwh, obat.soc_init_pct),
                                   R(100)),
                              opt_soc_min_mwh),
                         opt_soc_max_mwh)
        /\ \A t \in 1..Len(soc) :
              RLe(opt_soc_min_mwh, soc[t]) /\ RLe(soc[t], opt_soc_max_mwh)

\* C11 witness: a run with a lossy discharge whose initial state of charge was
\* clamped down to soc_max, where a discharge ends exactly at soc_min and a
\* charge ends exactly at soc_max.
C11_Witness ==
    /\ RanOptimizer
    /\ obat.eff_dis = <<1, 2>>
    /\ RGt(RDiv(RMul(obat.batt_energy_mwh, obat.soc_init_pct), R(100)), opt_soc_max_mwh)
    /\ RLt(opt_soc_min_mwh, opt_soc_max_mwh)
    /\ \E t \in 1..Len(opt_results) :
          RGt(opt_results[t].discharge_mw, R(0)) /\ soc[t + 1] = opt_soc_min_mwh
    /\ \E t \in 1..Len(opt_results) :
          RGt(opt_results[t].charge_mw, R(0)) /\ soc[t + 1] = opt_soc_max_mwh

opt_charge == [t \in 1..Len(opt_results) |-> opt_results[t].charge_mw]
opt_discharge == [t \in 1..Len(opt_results) |-> opt_results[t].discharge_mw]
opt_grid == [t \in 1..Len(opt_results) |-> opt_results[t].grid_mw]

\* C29: no export in run_dispatch_with_battery: in every interval the battery
\* discharge is at most the plant load, charge and discharge are never both
\* positive, grid draw = dispatch + charge - discharge is >= 0 before the
\* max(0, .) clamp, and battery_savings_eur is the baseline power cost (price *
\* plant energy) minus the actual power cost (price * grid energy).
C29_Theorem ==
    RanOptimizer =>
        /\ Len(opt_results) = Len(prices)
        /\ \A t \in 1..Len(opt_results) :
              /\ opt_results[t].dispatch_mw = opt_dispatch_mw[t]
              /\ RLe(R(0), opt_charge[t]) /\ RLe(R(0), opt_discharge[t])
              /\ RLe(opt_discharge[t], opt_dispatch_mw[t])
              /\ ~(RGt(opt_charge[t], R(0)) /\ RGt(opt_discharge[t], R(0)))
              /\ RGe(RSub(RAdd(opt_dispatch_mw[t], opt_charge[t]), opt_discharge[t]), R(0))
              /\ opt_grid[t] =
                     RSub(RAdd(opt_dispatch_mw[t], opt_charge[t]), opt_discharge[t])
        /\ opt_kpis.total_power_cost_baseline_eur =
               PricedEnergy(prices, opt_dispatch_mw, Len(prices))
        /\ opt_kpis.total_power_cost_eur = PricedEnergy(prices, opt_grid, Len(prices))
        /\ opt_kpis.battery_savings_eur =
               RSub(PricedEnergy(prices, opt_dispatch_mw, Len(prices)),
                    PricedEnergy(prices, opt_grid, Len(prices)))

\* C29 witness: a run in which the battery covers the whole plant load of an
\* interval (grid draw 0, the plant load being the limit), charges in another
\* interval, and the savings are not 0.
C29_Witness ==
    /\ RanOptimizer
    /\ \E t \in 1..Len(opt_results) :
          /\ RGt(opt_discharge[t], R(0))
          /\ opt_discharge[t] = opt_dispatch_mw[t]
          /\ RLt(opt_discharge[t], obat.batt_power_mw)
          /\ opt_grid[t] = R(0)
    /\ \E t \in 1..Len(opt_results) : RGt(opt_charge[t], R(0))
    /\ opt_kpis.battery_savings_eur # R(0)

-----------------------------------------------------------------------------
(* Properties of the price cap and of the script run (specification        *)
(* SpecApp).                                                               *)

\* the price cap of the script run has been computed
Resolved == app.pc \in {"check", "stopped", "run", "optimizing", "idle"}
ViaTolling == Resolved /\ params.TOLLING_ENABLED
ViaPowerOnly == Resolved /\ ~params.TOLLING_ENABLED /\ params.MARGIN_METHOD = PowerOnly
ViaFullEconomics ==
    Resolved /\ ~params.TOLLING_ENABLED /\ params.MARGIN_METHOD = FullEconomics
\* the target margin as a fraction, and the OPEX shares handed to price_cap_tolling
margin_fraction == RDiv(params.TARGET_MARGIN_PCT, R(100))
toll_opex == RAdd(RAdd(params.maint_pct, params.sga_pct), params.ins_pct)

\* C15: the threshold of price_cap_tolling is
\* max(0, variable_fee * (1 - target_margin - (maint + sga + ins)) - other_var_cost)
\* and so never negative, also for negative fees and for margin plus OPEX above 1.
C15_Theorem ==
    ViaTolling =>
        /\ RGe(app.price_cap, R(0))
        /\ app.price_cap =
              RMax(R(0),
                   RSub(RMul(params.toll_var_fee,
                             RSub(RSub(R(1), margin_fraction), toll_opex)),
                        params.toll_other_mwh))

\* C15 witness: a positive fee with margin plus OPEX above 1, where the cap before
\* the floor is negative and the threshold is 0.
C15_Witness ==
    /\ ViaTolling
    /\ RGt(params.toll_var_fee, R(0))
    /\ RGt(RAdd(margin_fraction, toll_opex), R(1))
    /\ app.price_cap = R(0)

\* the target margins of the sidebar that lie within [0, 1) as fractions
MarginsBelowOne ==
    {q.TARGET_MARGIN_PCT : q \in {r \in AppParams : RLt(r.TARGET_MARGIN_PCT, R(100))}}

\* C16: for the PowerOnly method the threshold is
\* max(0, (1 - target_margin_fraction) * break_even), and for a fixed
\* break_even > 0 every larger target margin within [0, 1) gives a strictly
\* smaller threshold (or both thresholds are 0).
C16_Theorem ==
    (/\ ViaPowerOnly
     /\ RGt(app.break_even, R(0))
     /\ RLe(R(0), margin_fraction) /\ RLt(margin_fraction, R(1))) =>
        /\ app.price_cap =
              RMax(R(0), RMul(RSub(R(1), margin_fraction), app.break_even))
        /\ \A pct \in MarginsBelowOne :
              RGt(pct, params.TARGET_MARGIN_PCT) =>
                  LET larger == compute_price_cap(PowerOnly, pct, app.break_even,
                                    params.maint_pct, params.sga_pct, params.ins_pct,
                                    params.mwh_per_ton, params.methanol_price,
                                    params.co2_price, params.co2_intensity).price_cap
                  IN  \/ RLt(larger, app.price_cap)
                      \/ (larger = R(0) /\ app.price_cap = R(0))

\* C16 witness: a PowerOnly threshold for break-even 60 and margin 30 %, with a
\* larger margin below 1 to compare with.
C16_Witness ==
    /\ ViaPowerOnly
    /\ app.break_even = R(60)
    /\ params.TARGET_MARGIN_PCT = R(30)
    /\ app.price_cap = R(42)
    /\ \E pct \in MarginsBelowOne : RGt(pct, params.TARGET_MARGIN_PCT)

====
